---- MODULE Spec2Model ----
(***************************************************************************)
(* A model of versatiles-glyphs: the font manager (groups of font files    *)
(* keyed by canonical id), the bucketing of codepoints into glyph blocks,  *)
(* the render pipeline of the merge / recurse commands with its mutex      *)
(* guarded writer, and the tar and file writers.                           *)
(*                                                                         *)
(* Strings are sequences of one-character strings, so that lower-casing,   *)
(* the regex replacement, truncation and byte order are computed.          *)
(***************************************************************************)
EXTENDS Integers, Sequences, FiniteSets, TLC

(***************************************************************************)
(* Bounds of the model.                                                    *)
(***************************************************************************)
\* wrapper.rs:47 pre-initialises the blocks 0..256; the model pre-initialises
\* the blocks 0..NumPreBlocks and places codepoints beyond them relative to it.
NumPreBlocks == 2
\* The longest FontWrapper built in the get_blocks specification.
MaxFiles == 3
\* The number of add_path / add_font_with_name calls of the manager specification.
MaxAdds == 3
\* The threads of the rayon pool in parallel mode.
NumWorkers == 2

\* glyph_block.rs:10
GLYPH_BLOCK_SIZE == 256

(***************************************************************************)
(* Strings.                                                                *)
(***************************************************************************)
Str1(a) == <<a>>

RECURSIVE Concat(_)
\* The concatenation of a sequence of sequences.
Concat(ss) == IF ss = <<>> THEN <<>> ELSE Head(ss) \o Concat(Tail(ss))

\* The printable ASCII characters, code 32 .. 126, in code order (code 96 is
\* written "grave").
AsciiChars ==
  << " ", "!", "\"", "#", "$", "%", "&", "'", "(", ")", "*", "+", ",", "-", ".", "/",
     "0", "1", "2", "3", "4", "5", "6", "7", "8", "9", ":", ";", "<", "=", ">", "?",
     "@", "A", "B", "C", "D", "E", "F", "G", "H", "I", "J", "K", "L", "M", "N", "O",
     "P", "Q", "R", "S", "T", "U", "V", "W", "X", "Y", "Z", "[", "\\", "]", "^", "_",
     "grave", "a", "b", "c", "d", "e", "f", "g", "h", "i", "j", "k", "l", "m", "n", "o",
     "p", "q", "r", "s", "t", "u", "v", "w", "x", "y", "z", "{", "|", "}", "~" >>

\* The line feed.
NL == "\n"

\* The byte of each character.
CodeOf ==
  [c \in {AsciiChars[i] : i \in 1..Len(AsciiChars)} \cup {NL} |->
     IF c = NL THEN 10 ELSE 31 + (CHOOSE i \in 1..Len(AsciiChars) : AsciiChars[i] = c)]

\* The byte of a character.
Code(c) == CodeOf[c]

\* The ASCII character of a byte in 32 .. 126.
Chr(b) == AsciiChars[b - 31]

\* The bytes of a string (s.as_bytes()).
Bytes(s) == [i \in 1..Len(s) |-> Code(s[i])]

\* char::to_lowercase on ASCII.
LowerChar(c) == IF Code(c) >= 65 /\ Code(c) <= 90 THEN Chr(Code(c) + 32) ELSE c

RECURSIVE DecStr(_)
\* The decimal digits of a number, as format!("{}") writes them.
DecStr(n) == IF n < 10 THEN <<Chr(48 + n)>> ELSE DecStr(n \div 10) \o <<Chr(48 + (n % 10))>>

\* An uppercase hexadecimal digit.
HexDigit(d) == IF d < 10 THEN Chr(48 + d) ELSE Chr(55 + d)

RECURSIVE HexStr(_)
\* The digits of a number as format!("{:X}") writes them.
HexStr(n) == IF n < 16 THEN <<HexDigit(n)>> ELSE HexStr(n \div 16) \o <<HexDigit(n % 16)>>

\* str::to_lowercase
to_lowercase(s) == [i \in 1..Len(s) |-> LowerChar(s[i])]

\* The order of String (byte-wise lexicographic): a < b.
RECURSIVE StrLess(_, _)
StrLess(a, b) ==
  IF b = <<>> THEN FALSE
  ELSE IF a = <<>> THEN TRUE
  ELSE IF Code(Head(a)) # Code(Head(b)) THEN Code(Head(a)) < Code(Head(b))
  ELSE StrLess(Tail(a), Tail(b))


(***************************************************************************)
(* Canonical names and ids.                                                *)
(***************************************************************************)
NORMAL == <<"n", "o", "r", "m", "a", "l">>
ITALIC == <<"i", "t", "a", "l", "i", "c">>

\* The weight names of FontMetadata::generate_name.
WeightName(weight) ==
  CASE weight = 100 -> <<"T", "h", "i", "n">>
    [] weight = 200 -> <<"E", "x", "t", "r", "a", "L", "i", "g", "h", "t">>
    [] weight = 300 -> <<"L", "i", "g", "h", "t">>
    [] weight = 400 -> <<"R", "e", "g", "u", "l", "a", "r">>
    [] weight = 500 -> <<"M", "e", "d", "i", "u", "m">>
    [] weight = 600 -> <<"S", "e", "m", "i", "B", "o", "l", "d">>
    [] weight = 700 -> <<"B", "o", "l", "d">>
    [] weight = 800 -> <<"E", "x", "t", "r", "a", "B", "o", "l", "d">>
    [] weight = 900 -> <<"B", "l", "a", "c", "k">>
    [] OTHER -> <<"U", "n", "k", "n", "o", "w", "n">>

\* FontMetadata::generate_name: family, width unless normal, weight name,
\* style unless normal, joined by single spaces.
generate_name(meta) ==
  LET n1 == IF meta.width # NORMAL THEN meta.family \o <<" ">> \o meta.width
            ELSE meta.family
      n2 == n1 \o <<" ">> \o WeightName(meta.weight)
  IN  IF meta.style # NORMAL THEN n2 \o <<" ">> \o meta.style ELSE n2

\* The class [-_\s] of the regular expression of name_to_id.
IsSeparator(c) == c \in {"-", "_", " "}

RECURSIVE SkipSeparators(_)
SkipSeparators(s) ==
  IF s # <<>> /\ IsSeparator(Head(s)) THEN SkipSeparators(Tail(s)) ELSE s

RECURSIVE ReplaceRuns(_)
\* re.replace_all(s, " ") for re = [-_\s]+ : every maximal run becomes one space.
ReplaceRuns(s) ==
  IF s = <<>> THEN <<>>
  ELSE IF IsSeparator(Head(s)) THEN <<" ">> \o ReplaceRuns(SkipSeparators(s))
  ELSE <<Head(s)>> \o ReplaceRuns(Tail(s))

RECURSIVE TrimStart(_)
TrimStart(s) == IF s # <<>> /\ Head(s) = " " THEN TrimStart(Tail(s)) ELSE s

RECURSIVE TrimEnd(_)
TrimEnd(s) ==
  IF s # <<>> /\ s[Len(s)] = " " THEN TrimEnd(SubSeq(s, 1, Len(s) - 1)) ELSE s

\* str::trim
Trim(s) == TrimEnd(TrimStart(s))

\* str::replace(from, to) for single characters.
ReplaceChar(s, from, to) == [i \in 1..Len(s) |-> IF s[i] = from THEN to ELSE s[i]]

\* The mutation: the runs at the ends are kept.
name_to_id_untrimmed(name) == ReplaceChar(ReplaceRuns(to_lowercase(name)), " ", "_")

\* name_to_id: lower-case, separator runs to one space, trim, spaces to underscores.
name_to_id(name) == ReplaceChar(Trim(ReplaceRuns(to_lowercase(name))), " ", "_")

(***************************************************************************)
(* The font files on disk.  A path names a file; the file parses or not;   *)
(* a parsed file has its FontMetadata.  Codepoints are sorted and unique   *)
(* (metadata.rs sorts them).  Hi is the first codepoint beyond the         *)
(* pre-initialised blocks.                                                 *)
(***************************************************************************)
Hi == NumPreBlocks * GLYPH_BLOCK_SIZE

Paths == {"f1", "f2", "f3", "f4", "f5", "bad", "missing"}

\* Paths whose bytes can be read (std::fs::read succeeds).
Readable == Paths \ {"missing"}

\* Paths whose bytes parse (Face::parse succeeds).
Parsable == Readable \ {"bad"}

Meta(path) ==
  CASE path = "f1" ->
         [family |-> <<"A", "-", "b">>, style |-> NORMAL, weight |-> 400,
          width |-> NORMAL, codepoints |-> <<65, 66, Hi + 1>>]
    [] path = "f2" ->
         [family |-> <<"a", "_", "B">>, style |-> NORMAL, weight |-> 400,
          width |-> NORMAL, codepoints |-> <<66, 67, 300, Hi + 1, Hi + 2>>]
    [] path = "f3" ->
         [family |-> <<"A", "-", "b">>, style |-> NORMAL, weight |-> 700,
          width |-> NORMAL, codepoints |-> <<65, 67, Hi + 2, Hi + 256>>]
    [] path = "f4" ->
         [family |-> <<"C">>, style |-> ITALIC, weight |-> 400,
          width |-> NORMAL, codepoints |-> <<>>]
    [] path = "f5" ->
         [family |-> <<"C">>, style |-> NORMAL, weight |-> 400,
          width |-> NORMAL, codepoints |-> <<Hi + 700>>]

VARIABLES
  bfiles,     \* get_blocks specification: FontWrapper.files, the paths parsed
  bblocks,    \* get_blocks specification: the result of the last get_blocks
  bcalled,    \* get_blocks specification: whether bblocks is such a result
  fonts,      \* FontManager.fonts: the entries [id, files] of the HashMap
  calls,      \* the number of FontManager calls made so far
  lastCall,   \* the last FontManager call and its outcome
  indexJson,  \* the bytes the last write_index_json handed to the writer
  parallel,   \* FontManager.parallel
  script,     \* run: the add calls still to make (input files, fonts.json entries)
  pc,         \* run: the statement the main thread is at
  mode,       \* run: the writer created, "tar" or "file" ("none" before)
  visited,    \* render_glyphs: the groups the serial loop has been through
  tasks,      \* render_glyphs: the Todo's collected, [name, block]
  todo,       \* render_glyphs: the Todo's no worker has taken yet
  wk,         \* render_glyphs: each worker's place in op, with its Todo
  holder,     \* writer_mutex: the worker that holds the lock, 0 when free
  poisoned,   \* writer_mutex: a holder panicked
  panicked,   \* render_glyphs: some op panicked
  ioFailed,   \* a write_file of a block returned Err
  dirCalls,   \* the names write_directory was called with
  fileCalls,  \* the names write_file was called with, and how many times
  finishes,   \* the number of finish calls that reached the writer
  tail,       \* tar mode: the last chunk handed to the archive's BufWriter
  renderResult, \* what render_glyphs ended with: "ok", "err", "panic"
  runResult,  \* what run ended with: "ok", "err", "panic"
  archive,    \* writer equivalence: the bytes the TarWriter has written
  disk,       \* writer equivalence: the tree under the FileWriter's folder
  werr,       \* writer equivalence: a call returned Err from either writer
  closed,     \* writer equivalence: the number of finish calls made
  entrySizes, \* writer equivalence: the sizes of the entries the TarWriter wrote
  familiesJson, \* the bytes the last write_families_json handed to the writer
  fnIn,       \* function specifications: the arguments drawn
  fnOut,      \* function specifications: the value returned for them
  fnDone,     \* function specifications: whether the function has been applied
  ring,       \* RingBuilder.ring: the points of the contour being collected
  rings,      \* RingBuilder.rings: the finalized rings, then into_rings' result
  callback,   \* RingBuilder: the last callback made, its points, the number made so far
  rendered,   \* GlyphBlock::render: the block last rendered and its fontstack
  iterOrder   \* the iteration order of the glyphs HashMap of each block returned

blockVars == <<bfiles, bblocks, bcalled, rendered, iterOrder>>

managerVars == <<fonts, calls, lastCall, indexJson, familiesJson>>

workerVars == <<todo, wk, holder, poisoned, panicked, ioFailed>>

writerVars == <<dirCalls, fileCalls, finishes, tail>>

runVars == <<parallel, script, pc, mode, visited, tasks, renderResult, runResult>>

tarVars == <<archive, disk, werr, closed, entrySizes>>

fnVars == <<fnIn, fnOut, fnDone>>

ringVars == <<ring, rings, callback>>

vars == <<bfiles, bblocks, bcalled, fonts, calls, lastCall, indexJson, parallel, script, pc,
          mode, visited, tasks, todo, wk, holder, poisoned, panicked, ioFailed, dirCalls,
          fileCalls, finishes, tail, renderResult, runResult, archive, disk, werr, closed,
          entrySizes,
          familiesJson, fnIn, fnOut, fnDone, ring, rings, callback,
          rendered, iterOrder>>

NoCall == [op |-> "none", name |-> <<>>, sources |-> <<>>, kind |-> "ok", ctx |-> {}]

\* FontManager::new: no fonts; nothing called, nothing written.
ManagerIdle ==
  /\ fonts = {}
  /\ calls = 0
  /\ lastCall = NoCall
  /\ indexJson = <<>>
  /\ familiesJson = <<>>

BlocksIdle ==
  /\ bfiles = <<>>
  /\ bblocks = {}
  /\ bcalled = FALSE
  /\ rendered = <<>>
  /\ iterOrder = <<>>

Workers == 1..NumWorkers

NoTask == [name |-> <<>>, block |-> [start_index |-> 0, glyphs |-> <<>>]]

Idle == [pc |-> "idle", task |-> NoTask, size |-> 0]

NoChunk == [part |-> "none", name |-> <<>>, rem |-> 0]

\* No run under way: the state the manager and the get_blocks specifications
\* leave the run in.
RunIdle ==
  /\ parallel = FALSE
  /\ script = <<>>
  /\ pc = "none"
  /\ mode = "none"
  /\ visited = {}
  /\ tasks = {}
  /\ todo = {}
  /\ wk = [w \in Workers |-> Idle]
  /\ holder = 0
  /\ poisoned = FALSE
  /\ panicked = FALSE
  /\ ioFailed = FALSE
  /\ dirCalls = {}
  /\ fileCalls = <<>>
  /\ finishes = 0
  /\ tail = NoChunk
  /\ renderResult = "none"
  /\ runResult = "none"

\* No writer pair under comparison.
TarIdle ==
  /\ archive = <<>>
  /\ disk = <<>>
  /\ werr = FALSE
  /\ closed = 0
  /\ entrySizes = <<>>

\* No function under application.
FnIdle ==
  /\ fnIn = <<>>
  /\ fnOut = <<>>
  /\ fnDone = FALSE

\* No RingBuilder in use.
RingIdle ==
  /\ ring = <<>>
  /\ rings = <<>>
  /\ callback = <<>>

(***************************************************************************)
(* Glyph blocks.  A block is [start_index, glyphs]; glyphs maps a char     *)
(* index to the position in FontWrapper.files of the file it is rendered   *)
(* from.                                                                   *)
(***************************************************************************)
\* GlyphBlock::new
GlyphBlock_new(start_index) == [start_index |-> start_index, glyphs |-> <<>>]

\* The mutation: the later file replaces the slot.
set_glyph_font_overwrite(block, char_index, font) ==
  [block EXCEPT !.glyphs =
     [c \in DOMAIN block.glyphs \cup {char_index} |->
        IF c = char_index THEN font ELSE block.glyphs[c]]]

\* GlyphBlock::set_glyph_font: glyphs.entry(char_index).or_insert(font)
set_glyph_font(block, char_index, font) ==
  IF char_index \in DOMAIN block.glyphs THEN block
  ELSE [block EXCEPT !.glyphs =
          [c \in DOMAIN block.glyphs \cup {char_index} |->
             IF c = char_index THEN font ELSE block.glyphs[c]]]

\* GlyphBlock::len
GlyphBlock_len(block) == Cardinality(DOMAIN block.glyphs)

\* The HashMap of blocks that get_blocks starts from.
PreBlocks == [i \in 0..(NumPreBlocks - 1) |-> GlyphBlock_new(i * GLYPH_BLOCK_SIZE)]

\* One pass of the inner loop of get_blocks: the codepoint goes to its block,
\* created when missing.
PlaceCodepoint(blocks, codepoint, font) ==
  LET block_index == codepoint \div GLYPH_BLOCK_SIZE
      char_index == (codepoint % GLYPH_BLOCK_SIZE) % 256
      block == IF block_index \in DOMAIN blocks THEN blocks[block_index]
               ELSE GlyphBlock_new(block_index * GLYPH_BLOCK_SIZE)
  IN  [k \in DOMAIN blocks \cup {block_index} |->
         IF k = block_index THEN set_glyph_font(block, char_index, font)
         ELSE blocks[k]]

RECURSIVE PlaceCodepoints(_, _, _)
PlaceCodepoints(blocks, codepoints, font) ==
  IF codepoints = <<>> THEN blocks
  ELSE PlaceCodepoints(PlaceCodepoint(blocks, Head(codepoints), font),
                       Tail(codepoints), font)

RECURSIVE PlaceFiles(_, _, _)
\* The outer loop of get_blocks over files[i..].
PlaceFiles(blocks, files, i) ==
  IF i > Len(files) THEN blocks
  ELSE PlaceFiles(PlaceCodepoints(blocks, Meta(files[i]).codepoints, i), files, i + 1)

\* The HashMap at the end of FontWrapper::get_blocks, by block index.
BlockMap(files) == PlaceFiles(PreBlocks, files, 1)

\* The mutation: only the blocks with a filled slot are returned.
get_blocks_nonempty(files) ==
  {b \in {BlockMap(files)[k] : k \in DOMAIN BlockMap(files)} : b.glyphs # <<>>}

\* FontWrapper::get_blocks: blocks.into_values().collect(), in no fixed order.
get_blocks(files) == {BlockMap(files)[k] : k \in DOMAIN BlockMap(files)}

(***************************************************************************)
(* The get_blocks specification: a FontWrapper grows by add_file, and      *)
(* get_blocks is called on it.                                             *)
(***************************************************************************)
BInit ==
  /\ bfiles = <<>>
  /\ bblocks = {}
  /\ bcalled = FALSE
  /\ rendered = <<>>
  /\ iterOrder = <<>>
  /\ ManagerIdle
  /\ RunIdle
  /\ TarIdle
  /\ RingIdle
  /\ FnIdle

\* FontWrapper::add_file; the blocks borrowed from the wrapper are gone.
BAddFile ==
  /\ Len(bfiles) < MaxFiles
  /\ \E p \in Parsable :
       bfiles' = Append(bfiles, p)
  /\ bblocks' = {}
  /\ bcalled' = FALSE
  /\ rendered' = <<>>
  /\ iterOrder' = <<>>
  /\ UNCHANGED <<ringVars, fnVars, tarVars>>
  /\ UNCHANGED <<managerVars, runVars, workerVars, writerVars>>

\* The enumerations of a finite set: the orders in which a HashMap may
\* iterate.
Orders(S) ==
  {f \in [1..Cardinality(S) -> S] : \A i, j \in 1..Cardinality(S) : f[i] = f[j] => i = j}

RECURSIVE IterOrders(_)
\* The orders in which the glyphs HashMap of each block may yield its keys,
\* by start_index.
IterOrders(blocks) ==
  IF blocks = {} THEN {<<>>}
  ELSE LET b == CHOOSE x \in blocks : TRUE
       IN  { (b.start_index :> order) @@ f :
               order \in Orders(DOMAIN b.glyphs), f \in IterOrders(blocks \ {b}) }

\* FontWrapper::get_blocks: new blocks, each with a new HashMap.
BGetBlocks ==
  /\ bcalled = FALSE
  /\ bblocks' = get_blocks(bfiles)
  /\ bcalled' = TRUE
  /\ rendered' = <<>>
  /\ iterOrder' \in IterOrders(get_blocks(bfiles))
  /\ UNCHANGED <<ringVars, fnVars, tarVars>>
  /\ UNCHANGED <<bfiles, managerVars, runVars, workerVars, writerVars>>

(***************************************************************************)
(* Claims about get_blocks.                                                *)
(***************************************************************************)
\* The codepoints of the file at position i of a wrapper.
CodepointsOf(files, i) == {Meta(files[i]).codepoints[k] : k \in 1..Len(Meta(files[i]).codepoints)}

\* The codepoints covered by at least one file of a wrapper.
Covered(files) == UNION {CodepointsOf(files, i) : i \in 1..Len(files)}

\* The first position, in insertion order, of a file that covers cp.
FirstFile(files, cp) ==
  CHOOSE i \in 1..Len(files) :
    /\ cp \in CodepointsOf(files, i)
    /\ \A j \in 1..(i - 1) : cp \notin CodepointsOf(files, j)

\* C1: for every codepoint cp covered by a file of the group, the slot
\* (cp div 256, cp mod 256) of the blocks get_blocks returns references the
\* first file in insertion order that covers cp.
C1_FirstFileWins ==
  bcalled =>
    \A cp \in Covered(bfiles) :
      \E b \in bblocks :
        /\ b.start_index = (cp \div 256) * 256
        /\ (cp % 256) \in DOMAIN b.glyphs
        /\ b.glyphs[cp % 256] = FirstFile(bfiles, cp)

\* get_blocks has run on three files, two later ones covering the same
\* codepoint that the first does not cover.
C1_Witness ==
  /\ bcalled
  /\ Len(bfiles) = 3
  /\ \E cp \in Covered(bfiles) :
       /\ FirstFile(bfiles, cp) = 2
       /\ cp \in CodepointsOf(bfiles, 3)
       /\ bfiles[2] # bfiles[3]


(***************************************************************************)
(* The font manager.  An error is [kind, ctx]: kind "err" is an Err the    *)
(* caller receives, kind "panic" an unwrap that aborts the process; ctx is *)
(* the set of paths the error chain names.                                 *)
(***************************************************************************)
Ids(fs) == {e.id : e \in fs}

\* The entries of the map with the given key (one, while keys are unique).
Entries(fs, id) == {e \in fs : e.id = id}

\* The names given in fonts.json files to add_font_with_name.
GroupNames ==
  { <<"a", "-", "B", " ", " ", "R", "e", "g", "u", "l", "a", "r">>,
    <<"N", "\"">>,
    <<"_", "M", " ">> }

\* The source lists given in fonts.json files.
SourceLists == { <<>>, <<"f3", "f1">>, <<"f3", "bad", "f1">> }

RECURSIVE add_paths(_, _)
\* FontWrapper::add_paths: each source is read (the error names the path) and
\* parsed (the error names nothing), and pushed; the first error ends the loop
\* with the earlier files pushed.
add_paths(files, sources) ==
  IF sources = <<>> THEN [files |-> files, kind |-> "ok", ctx |-> {}]
  ELSE IF Head(sources) \notin Readable
       THEN [files |-> files, kind |-> "err", ctx |-> {Head(sources)}]
  ELSE IF Head(sources) \notin Parsable
       THEN [files |-> files, kind |-> "err", ctx |-> {}]
  ELSE add_paths(Append(files, Head(sources)), Tail(sources))

\* The mutation: a new entry is inserted whether or not the key is present.
EntryInsertAlways(fs, id, path) == fs \cup {[id |-> id, files |-> <<path>>]}

\* The match on self.fonts.entry(id) of add_path: Vacant inserts
\* FontWrapper::from(file), Occupied calls add_file.
EntryInsertOrAppend(fs, id, path) ==
  IF Entries(fs, id) = {} THEN fs \cup {[id |-> id, files |-> <<path>>]}
  ELSE {IF e.id = id THEN [e EXCEPT !.files = Append(e.files, path)] ELSE e : e \in fs}

\* FontManager::add_path: [fonts, kind, ctx]
add_path(fs, path) ==
  IF path \notin Readable THEN [fonts |-> fs, kind |-> "err", ctx |-> {}]
  ELSE IF path \notin Parsable THEN [fonts |-> fs, kind |-> "err", ctx |-> {}]
  ELSE [fonts |-> EntryInsertOrAppend(fs, name_to_id(generate_name(Meta(path))), path),
        kind |-> "ok", ctx |-> {}]

\* FontManager::add_font_with_name: and_modify(add_paths(..).unwrap()) on an
\* occupied entry, or_insert_with(try_from(..).unwrap()) on a vacant one.
add_font_with_name(fs, name, sources) ==
  LET id == name_to_id(name)
      old == IF Entries(fs, id) = {} THEN <<>> ELSE (CHOOSE e \in Entries(fs, id) : TRUE).files
      r == add_paths(old, sources)
  IN  IF Entries(fs, id) # {}
      THEN [fonts |-> {IF e.id = id THEN [e EXCEPT !.files = r.files] ELSE e : e \in fs},
            kind |-> IF r.kind = "ok" THEN "ok" ELSE "panic", ctx |-> r.ctx]
      ELSE IF r.kind = "ok"
           THEN [fonts |-> fs \cup {[id |-> id, files |-> r.files]}, kind |-> "ok", ctx |-> {}]
           ELSE [fonts |-> fs, kind |-> "panic", ctx |-> r.ctx]

(***************************************************************************)
(* index.json                                                              *)
(***************************************************************************)
RECURSIVE InsertSorted(_, _)
InsertSorted(sorted, x) ==
  IF sorted = <<>> THEN <<x>>
  ELSE IF StrLess(x, Head(sorted)) THEN <<x>> \o sorted
  ELSE <<Head(sorted)>> \o InsertSorted(Tail(sorted), x)

RECURSIVE SortStrings(_)
\* Vec<&String>::sort: ascending in the order of String, equal elements in
\* their input order.
SortStrings(list) ==
  IF list = <<>> THEN <<>>
  ELSE InsertSorted(SortStrings(SubSeq(list, 1, Len(list) - 1)), list[Len(list)])

RECURSIVE JsonEscape(_)
\* serde_json's escaping of a string's characters.
JsonEscape(str) ==
  IF str = <<>> THEN <<>>
  ELSE IF Head(str) = "\"" THEN <<"\\", "\"">> \o JsonEscape(Tail(str))
  ELSE IF Head(str) = "\\" THEN <<"\\", "\\">> \o JsonEscape(Tail(str))
  ELSE <<Head(str)>> \o JsonEscape(Tail(str))

JsonString(str) == <<"\"">> \o JsonEscape(str) \o <<"\"">>

RECURSIVE JsonItems(_)
\* The elements of a pretty-printed array, two spaces of indent, one a line.
JsonItems(list) ==
  IF list = <<>> THEN <<>>
  ELSE <<NL, " ", " ">> \o JsonString(Head(list))
       \o (IF Len(list) > 1 THEN <<",">> ELSE <<>>) \o JsonItems(Tail(list))

\* serde_json::to_vec_pretty of a list of strings.
to_vec_pretty(list) ==
  IF list = <<>> THEN <<"[", "]">>
  ELSE <<"[">> \o JsonItems(list) \o <<NL, "]">>

\* The mutation: the keys are written in the order the map yields them.
build_index_json_unsorted(list) == to_vec_pretty(list)

\* build_index_json, of the keys in the order the map yields them.
build_index_json(list) == to_vec_pretty(SortStrings(list))

(***************************************************************************)
(* font_families.json                                                      *)
(***************************************************************************)
RECURSIVE SortedSeq(_)
\* The elements of a set of numbers in ascending order (collect, then
\* sort_unstable).
SortedSeq(S) ==
  IF S = {} THEN <<>>
  ELSE LET m == CHOOSE x \in S : \A y \in S : x <= y
       IN  <<m>> \o SortedSeq(S \ {m})

RECURSIVE GroupRanges(_, _, _, _)
\* The loop of encode_codeblocks over blocks[i..]: a range is closed when
\* the next block is not prev + 1; the last range is pushed at the end.
GroupRanges(blocks, i, start, prev) ==
  IF i > Len(blocks) THEN <<<<start, prev>>>>
  ELSE IF blocks[i] # prev + 1
       THEN <<<<start, prev>>>> \o GroupRanges(blocks, i + 1, blocks[i], blocks[i])
  ELSE GroupRanges(blocks, i + 1, start, blocks[i])

\* The mutation: a range is written as its start alone.
FormatRangeStartOnly(r) == HexStr(r[1])

\* One range of encode_codeblocks: "S" or "S-E" in uppercase hex.
FormatRange(r) == IF r[1] = r[2] THEN HexStr(r[1]) ELSE HexStr(r[1]) \o <<"-">> \o HexStr(r[2])

RECURSIVE JoinComma(_)
\* join(",")
JoinComma(parts) ==
  IF parts = <<>> THEN <<>>
  ELSE IF Len(parts) = 1 THEN parts[1]
  ELSE parts[1] \o <<",">> \o JoinComma(Tail(parts))

\* encode_codeblocks
encode_codeblocks(codepoints) ==
  LET blocks == SortedSeq({codepoints[i] \div 16 : i \in 1..Len(codepoints)})
  IN  IF blocks = <<>> THEN <<>>
      ELSE LET ranges == GroupRanges(blocks, 2, blocks[1], blocks[1])
           IN  JoinComma([k \in 1..Len(ranges) |-> FormatRange(ranges[k])])

\* The mutation: the metadata of the file added last.
get_metadata_last(files) == Meta(files[Len(files)])

\* FontWrapper::get_metadata: the metadata of the first file (of a wrapper
\* that has one).
get_metadata(files) == Meta(files[1])

\* FontFamily::add_font: the face pushed for a group.
FontFace(e) ==
  [id |-> e.id,
   style |-> get_metadata(e.files).style,
   weight |-> get_metadata(e.files).weight,
   width |-> get_metadata(e.files).width,
   codeblocks |-> encode_codeblocks(get_metadata(e.files).codepoints)]

RECURSIVE FacesOf(_, _)
\* The faces pushed to the family of a name, in the order the map of fonts
\* yields its groups.
FacesOf(order, name) ==
  IF order = <<>> THEN <<>>
  ELSE (IF get_metadata(Head(order).files).family = name THEN <<FontFace(Head(order))>>
        ELSE <<>>) \o FacesOf(Tail(order), name)

\* The families of build_font_families_json after sort_by_cached_key: one
\* per family name, ascending by name (the names are the keys of family_map,
\* so the order in which into_values yields them does not show).
Families(order) ==
  LET names == {get_metadata(order[i].files).family : i \in 1..Len(order)}
      sorted == SortStrings(CHOOSE f \in Orders(names) : TRUE)
  IN  [k \in 1..Len(sorted) |-> [name |-> sorted[k], faces |-> FacesOf(order, sorted[k])]]

Spaces(n) == [i \in 1..n |-> " "]

\* A key of a pretty-printed object, on a line of its own.
JsonKey(indent, key) == <<NL>> \o Spaces(indent) \o JsonString(key) \o <<":", " ">>

\* serde_json::to_vec_pretty of a FontFace, at the depth of a faces array.
FaceJson(face) ==
  <<NL>> \o Spaces(6) \o <<"{">>
  \o JsonKey(8, <<"i", "d">>) \o JsonString(face.id) \o <<",">>
  \o JsonKey(8, <<"s", "t", "y", "l", "e">>) \o JsonString(face.style) \o <<",">>
  \o JsonKey(8, <<"w", "e", "i", "g", "h", "t">>) \o DecStr(face.weight) \o <<",">>
  \o JsonKey(8, <<"w", "i", "d", "t", "h">>) \o JsonString(face.width) \o <<",">>
  \o JsonKey(8, <<"c", "o", "d", "e", "b", "l", "o", "c", "k", "s">>)
  \o JsonString(face.codeblocks)
  \o <<NL>> \o Spaces(6) \o <<"}">>

RECURSIVE FacesJson(_)
FacesJson(faces) ==
  IF faces = <<>> THEN <<>>
  ELSE FaceJson(Head(faces)) \o (IF Len(faces) > 1 THEN <<",">> ELSE <<>>)
       \o FacesJson(Tail(faces))

\* serde_json::to_vec_pretty of a FontFamily, at the depth of the array.
FamilyJson(family) ==
  <<NL>> \o Spaces(2) \o <<"{">>
  \o JsonKey(4, <<"n", "a", "m", "e">>) \o JsonString(family.name) \o <<",">>
  \o JsonKey(4, <<"f", "a", "c", "e", "s">>)
  \o (IF family.faces = <<>> THEN <<"[", "]">>
      ELSE <<"[">> \o FacesJson(family.faces) \o <<NL>> \o Spaces(4) \o <<"]">>)
  \o <<NL>> \o Spaces(2) \o <<"}">>

RECURSIVE FamiliesJson(_)
FamiliesJson(families) ==
  IF families = <<>> THEN <<>>
  ELSE FamilyJson(Head(families)) \o (IF Len(families) > 1 THEN <<",">> ELSE <<>>)
       \o FamiliesJson(Tail(families))

\* serde_json::to_vec_pretty of the list of families.
families_to_vec_pretty(families) ==
  IF families = <<>> THEN <<"[", "]">>
  ELSE <<"[">> \o FamiliesJson(families) \o <<NL, "]">>

\* A group without files: get_metadata unwraps files.first() and panics.
HasEmptyGroup(fs) == \E e \in fs : e.files = <<>>

\* build_font_families_json, of the groups in the order the map yields them
\* (none of them empty).
build_font_families_json(order) == families_to_vec_pretty(Families(order))

(***************************************************************************)
(* The manager specification: any calls of add_path and                    *)
(* add_font_with_name on one manager, then write_index_json and            *)
(* write_families_json, until a call panics.                               *)
(***************************************************************************)
MInit ==
  /\ ManagerIdle
  /\ BlocksIdle
  /\ RunIdle
  /\ TarIdle
  /\ RingIdle
  /\ FnIdle

MLive == lastCall.kind # "panic"

\* The manager is still being filled: as in run, the fonts are added before
\* the JSON files are written.
MFilling == MLive /\ indexJson = <<>> /\ familiesJson = <<>>

MAddPath ==
  /\ MFilling
  /\ calls < MaxAdds
  /\ \E path \in Paths :
       LET r == add_path(fonts, path)
       IN  /\ fonts' = r.fonts
           /\ lastCall' = [op |-> "add_path", name |-> <<>>, sources |-> <<path>>,
                           kind |-> r.kind, ctx |-> r.ctx]
  /\ calls' = calls + 1
  /\ UNCHANGED <<ringVars, fnVars, tarVars>>
  /\ UNCHANGED <<indexJson, familiesJson, blockVars, runVars, workerVars, writerVars>>

MAddFontWithName ==
  /\ MFilling
  /\ calls < MaxAdds
  /\ \E name \in GroupNames, sources \in SourceLists :
       LET r == add_font_with_name(fonts, name, sources)
       IN  /\ fonts' = r.fonts
           /\ lastCall' = [op |-> "add_font_with_name", name |-> name, sources |-> sources,
                           kind |-> r.kind, ctx |-> r.ctx]
  /\ calls' = calls + 1
  /\ UNCHANGED <<ringVars, fnVars, tarVars>>
  /\ UNCHANGED <<indexJson, familiesJson, blockVars, runVars, workerVars, writerVars>>

\* FontManager::write_index_json, on a writer that accepts the file.
MWriteIndexJson ==
  /\ MLive
  /\ lastCall.op # "write_index_json"
  /\ \E keys \in Orders(Ids(fonts)) :
       indexJson' = build_index_json(keys)
  /\ lastCall' = [op |-> "write_index_json", name |-> <<>>, sources |-> <<>>,
                  kind |-> "ok", ctx |-> {}]
  /\ UNCHANGED <<ringVars, fnVars, tarVars>>
  /\ UNCHANGED <<fonts, calls, familiesJson, blockVars, runVars, workerVars, writerVars>>

\* FontManager::write_families_json, on a writer that accepts the file.
MWriteFamiliesJson ==
  /\ MLive
  /\ lastCall.op # "write_families_json"
  /\ \E order \in Orders(fonts) :
       IF HasEmptyGroup(fonts)
       THEN /\ familiesJson' = familiesJson
            /\ lastCall' = [op |-> "write_families_json", name |-> <<>>, sources |-> <<>>,
                            kind |-> "panic", ctx |-> {}]
       ELSE /\ familiesJson' = build_font_families_json(order)
            /\ lastCall' = [op |-> "write_families_json", name |-> <<>>, sources |-> <<>>,
                            kind |-> "ok", ctx |-> {}]
  /\ UNCHANGED <<ringVars, fnVars, tarVars>>
  /\ UNCHANGED <<fonts, calls, indexJson, blockVars, runVars, workerVars, writerVars>>

MNext == MAddPath \/ MAddFontWithName \/ MWriteIndexJson \/ MWriteFamiliesJson

SpecManager == MInit /\ [][MNext]_vars


(***************************************************************************)
(* Claims about the manager.                                               *)
(***************************************************************************)
IsAdd(call) == call.op \in {"add_path", "add_font_with_name"}

\* The key an add call files its sources under.
CallId(call) ==
  IF call.op = "add_path" THEN name_to_id(generate_name(Meta(call.sources[1])))
  ELSE name_to_id(call.name)

AllParsable(sources) == \A i \in 1..Len(sources) : sources[i] \in Parsable

\* The call reached a file whose bytes do not parse.
ParseFails(call) ==
  \E k \in 1..Len(call.sources) :
    /\ call.sources[k] \in Readable \ Parsable
    /\ \A j \in 1..(k - 1) : call.sources[j] \in Parsable

\* The file whose bytes do not parse.
Offending(call) ==
  CHOOSE path \in Paths : \E k \in 1..Len(call.sources) :
    /\ call.sources[k] = path
    /\ path \in Readable \ Parsable
    /\ \A j \in 1..(k - 1) : call.sources[j] \in Parsable

\* C8: when a font file's bytes fail to parse, the enclosing add_path or
\* add_font_with_name call returns an error, not a panic, and the error
\* names the path of the offending file in its context.
C8_ParseFailureIsErrWithPath ==
  (IsAdd(lastCall) /\ ParseFails(lastCall)) =>
    /\ lastCall.kind = "err"
    /\ Offending(lastCall) \in lastCall.ctx

UniqueIds == \A e1, e2 \in fonts : e1.id = e2.id => e1 = e2

\* An add call whose sources all parse, filed under a key already present,
\* returns Ok and leaves the group with the sources appended, every other
\* group untouched.
AppendsToExisting ==
  (/\ calls' = calls + 1
   /\ lastCall'.sources # <<>>
   /\ AllParsable(lastCall'.sources)
   /\ CallId(lastCall') \in Ids(fonts))
  => /\ lastCall'.kind = "ok"
     /\ \E e \in Entries(fonts, CallId(lastCall')) :
          /\ [id |-> e.id, files |-> e.files \o lastCall'.sources] \in fonts'
          /\ fonts' \ {[id |-> e.id, files |-> e.files \o lastCall'.sources]} = fonts \ {e}

\* C9: no two groups of the manager share a canonical id, and adding files
\* whose id already exists raises no error and appends them to the end of
\* the existing group, the files already there and their order unchanged.
C9_UniqueIdsAppend == [](UniqueIds) /\ [][AppendsToExisting]_vars

\* A file has been appended by add_path to a group that another path began.
C9_Witness ==
  /\ lastCall.op = "add_path"
  /\ lastCall.kind = "ok"
  /\ \E e \in fonts :
       /\ Len(e.files) = 2
       /\ e.files[2] = lastCall.sources[1]
       /\ e.files[1] # e.files[2]

RECURSIVE JsonScan(_, _, _, _, _)
\* A reader of a JSON array of strings: the list of the strings, or
\* <<"invalid">> where the text is no such array.  at is the reader's place:
\* "open" before the bracket, "item" before a string, "first" before a string
\* or the closing bracket, "str" in a string, "esc" after a backslash, "sep"
\* after a string, "end" after the closing bracket.
JsonScan(text, i, at, cur, acc) ==
  IF i > Len(text) THEN (IF at = "end" THEN acc ELSE <<"invalid">>)
  ELSE LET c == text[i] IN
    CASE at = "open" ->
           IF c = "[" THEN JsonScan(text, i + 1, "first", <<>>, acc) ELSE <<"invalid">>
      [] at \in {"first", "item"} ->
           IF c \in {NL, " "} THEN JsonScan(text, i + 1, at, <<>>, acc)
           ELSE IF c = "\"" THEN JsonScan(text, i + 1, "str", <<>>, acc)
           ELSE IF c = "]" /\ at = "first" THEN JsonScan(text, i + 1, "end", <<>>, acc)
           ELSE <<"invalid">>
      [] at = "str" ->
           IF c = "\\" THEN JsonScan(text, i + 1, "esc", cur, acc)
           ELSE IF c = "\"" THEN JsonScan(text, i + 1, "sep", <<>>, Append(acc, cur))
           ELSE JsonScan(text, i + 1, "str", Append(cur, c), acc)
      [] at = "esc" ->
           IF c \in {"\"", "\\"} THEN JsonScan(text, i + 1, "str", Append(cur, c), acc)
           ELSE <<"invalid">>
      [] at = "sep" ->
           IF c \in {NL, " "} THEN JsonScan(text, i + 1, "sep", <<>>, acc)
           ELSE IF c = "," THEN JsonScan(text, i + 1, "item", <<>>, acc)
           ELSE IF c = "]" THEN JsonScan(text, i + 1, "end", <<>>, acc)
           ELSE <<"invalid">>
      [] OTHER -> <<"invalid">>

ParseJsonStrings(text) == JsonScan(text, 1, "open", <<>>, <<>>)

\* C10: write_index_json writes a JSON array whose elements are exactly the
\* manager's keys, each once, in strictly ascending order.
C10_IndexJsonSortedKeys ==
  lastCall.op = "write_index_json" =>
    LET list == ParseJsonStrings(indexJson)
    IN  /\ list # <<"invalid">>
        /\ {list[i] : i \in 1..Len(list)} = Ids(fonts)
        /\ Len(list) = Cardinality(Ids(fonts))
        /\ \A i \in 1..(Len(list) - 1) : StrLess(list[i], list[i + 1])

\* index.json has been written for a manager of three groups, one of them
\* under a key with a character that JSON escapes.
C10_Witness ==
  /\ lastCall.op = "write_index_json"
  /\ Cardinality(Ids(fonts)) = 3
  /\ \E id \in Ids(fonts) : \E i \in 1..Len(id) : id[i] = "\""


(***************************************************************************)
(* File names.                                                             *)
(***************************************************************************)
\* GlyphBlock::range
range(block) ==
  DecStr(block.start_index) \o <<"-">> \o DecStr(block.start_index + GLYPH_BLOCK_SIZE - 1)

\* GlyphBlock::filename
filename(block) == range(block) \o <<".", "p", "b", "f">>

\* The file name op gives a Todo: format!("{}/{}", todo.name, todo.block.filename())
file_name(task) == task.name \o <<"/">> \o filename(task.block)

\* The directory name of a group: format!("{}/", name)
dir_name(id) == id \o <<"/">>

INDEX_JSON == <<"i", "n", "d", "e", "x", ".", "j", "s", "o", "n">>

FAMILIES_JSON ==
  <<"f", "o", "n", "t", "_", "f", "a", "m", "i", "l", "i", "e", "s", ".", "j", "s", "o", "n">>

(***************************************************************************)
(* The writer, as the run sees it: the calls that reach it and, in tar     *)
(* mode, the last chunk handed to the archive (each write_all of           *)
(* TarWriter is one chunk).                                                *)
(***************************************************************************)
\* tar.rs:110, the block size of the archive.
TAR_BLOCK == 512

\* The lengths a rendered block or a families file may have: one that needs
\* padding (an empty fontstack message) and one that does not.
PayloadSizes == {33, 2 * TAR_BLOCK}

\* One more write_file call with this name.
AddCall(fc, name) ==
  [n \in DOMAIN fc \cup {name} |->
     IF n = name THEN (IF name \in DOMAIN fc THEN fc[name] + 1 ELSE 1) ELSE fc[n]]

CallsOf(name) == IF name \in DOMAIN fileCalls THEN fileCalls[name] ELSE 0

HeaderChunk(name, size) == [part |-> "header", name |-> name, rem |-> size % TAR_BLOCK]

PayloadChunk(name, size) == [part |-> "payload", name |-> name, rem |-> size % TAR_BLOCK]

PadChunk(name, size) == [part |-> "pad", name |-> name, rem |-> size % TAR_BLOCK]

\* The last chunk of a complete write_file: the padding, or the payload when
\* the size is a multiple of the block size.
LastChunk(name, size) ==
  IF size % TAR_BLOCK = 0 THEN PayloadChunk(name, size) ELSE PadChunk(name, size)

\* Whether a writer call may fail: every call of the tar writer and every
\* call but finish of the file writer does I/O.
Outcomes(isFinish) == IF isFinish /\ mode = "file" THEN {TRUE} ELSE BOOLEAN

\* A whole write_file call made by the main thread; a failing call stops
\* before the header, after it, or after the payload.
MainWriteFile(name, size, ok) ==
  /\ fileCalls' = AddCall(fileCalls, name)
  /\ IF mode # "tar" THEN tail' = tail
     ELSE IF ok THEN tail' = LastChunk(name, size)
     ELSE tail' \in {tail, HeaderChunk(name, size), PayloadChunk(name, size)}

(***************************************************************************)
(* The run of merge / recurse.                                             *)
(***************************************************************************)
AddPathCall(path) == [op |-> "add_path", name |-> <<>>, sources |-> <<path>>]

NamedCall(name, sources) == [op |-> "add_font_with_name", name |-> name, sources |-> sources]

\* The inputs of the runs checked: the add calls that merge (add_paths over
\* the input files) or recurse (scan) makes, in order.
Scripts ==
  { <<>>,
    <<AddPathCall("f1"), AddPathCall("f2")>>,
    <<AddPathCall("f1"), AddPathCall("f5")>>,
    <<AddPathCall("bad")>>,
    <<NamedCall(<<"N", "\"">>, <<>>)>>,
    <<AddPathCall("f2"),
      NamedCall(<<"a", "-", "B", " ", " ", "R", "e", "g", "u", "l", "a", "r">>,
                <<"f3", "bad", "f1">>)>> }

ApplyCall(fs, call) ==
  IF call.op = "add_path" THEN add_path(fs, call.sources[1])
  ELSE add_font_with_name(fs, call.name, call.sources)

\* The mutation: index.json is written before the glyphs are rendered.
StageAfterIndexFirst(stage) ==
  CASE stage = "open" -> "index"
    [] stage = "index" -> "prepass"
    [] stage = "render" -> "families"
    [] stage = "families" -> "finish"
    [] stage = "finish" -> "drop"

\* The order of the statements of run after the manager is loaded.
StageAfter(stage) ==
  CASE stage = "open" -> "prepass"
    [] stage = "render" -> "index"
    [] stage = "index" -> "families"
    [] stage = "families" -> "finish"
    [] stage = "finish" -> "drop"

\* The mutation: the workers start once one group has been through the loop.
PrepassDoneEarly(fs, seen) == seen # {} \/ fs = {}

\* The serial loop of render_glyphs is over: it has been through every group.
PrepassDone(fs, seen) == Ids(fs) \subseteq seen

\* The mutation: the lock is handed out whoever holds it.
MutexFreeAlways(h) == TRUE

\* Mutex::lock returns when no one holds the lock.
MutexFree(h) == h = 0

Init ==
  /\ BlocksIdle
  /\ ManagerIdle
  /\ parallel \in BOOLEAN
  /\ script \in Scripts
  /\ pc = "load"
  /\ mode = "none"
  /\ visited = {}
  /\ tasks = {}
  /\ todo = {}
  /\ wk = [w \in Workers |-> Idle]
  /\ holder = 0
  /\ poisoned = FALSE
  /\ panicked = FALSE
  /\ ioFailed = FALSE
  /\ dirCalls = {}
  /\ fileCalls = <<>>
  /\ finishes = 0
  /\ tail = NoChunk
  /\ renderResult = "none"
  /\ runResult = "none"
  /\ TarIdle
  /\ RingIdle
  /\ FnIdle

\* run: the next add call; an Err ends run by "?", a panic ends the process.
\* No writer exists yet.
Load ==
  /\ pc = "load"
  /\ script # <<>>
  /\ LET r == ApplyCall(fonts, Head(script))
     IN  /\ fonts' = r.fonts
         /\ lastCall' = [op |-> Head(script).op, name |-> Head(script).name,
                         sources |-> Head(script).sources, kind |-> r.kind, ctx |-> r.ctx]
         /\ pc' = IF r.kind = "ok" THEN "load" ELSE "done"
         /\ runResult' = IF r.kind = "ok" THEN runResult ELSE r.kind
  /\ calls' = calls + 1
  /\ script' = Tail(script)
  /\ UNCHANGED <<ringVars, fnVars, tarVars>>
  /\ UNCHANGED <<indexJson, familiesJson, blockVars, parallel, mode, visited, tasks, renderResult,
                 workerVars, writerVars>>

\* run: Writer::new_tar or Writer::new_file, by args.tar.
OpenWriter ==
  /\ pc = "load"
  /\ script = <<>>
  /\ mode' \in {"tar", "file"}
  /\ pc' = StageAfter("open")
  /\ UNCHANGED <<ringVars, fnVars, tarVars>>
  /\ UNCHANGED <<managerVars, blockVars, parallel, script, visited, tasks, renderResult,
                 runResult, workerVars, writerVars>>

\* render_glyphs, one pass of the serial loop over self.fonts: the directory
\* of the group is written and its blocks become Todo's.
PrepassGroup ==
  /\ pc = "prepass"
  /\ \E e \in fonts, ok \in BOOLEAN :
       /\ e.id \notin visited
       /\ dirCalls' = dirCalls \cup {dir_name(e.id)}
       /\ IF ok
          THEN /\ visited' = visited \cup {e.id}
               /\ tasks' = tasks \cup {[name |-> e.id, block |-> b] : b \in get_blocks(e.files)}
               /\ tail' = IF mode = "tar"
                          THEN [part |-> "dirheader", name |-> dir_name(e.id), rem |-> 0]
                          ELSE tail
               /\ UNCHANGED <<pc, renderResult, runResult>>
          ELSE /\ renderResult' = "err"
               /\ runResult' = "err"
               /\ pc' = "drop"
               /\ UNCHANGED <<visited, tasks, tail>>
  /\ UNCHANGED <<ringVars, fnVars, tarVars>>
  /\ UNCHANGED <<managerVars, blockVars, parallel, script, mode, workerVars, fileCalls,
                 finishes>>

\* render_glyphs: the loop is over; the mutex is made and the tasks are
\* handed to par_iter or iter.
BeginRender ==
  /\ pc = "prepass"
  /\ PrepassDone(fonts, visited)
  /\ pc' = "render"
  /\ todo' = tasks
  /\ UNCHANGED <<ringVars, fnVars, tarVars>>
  /\ UNCHANGED <<managerVars, blockVars, parallel, script, mode, visited, tasks,
                 renderResult, runResult, wk, holder, poisoned, panicked, ioFailed,
                 writerVars>>

\* The threads that run op: those of the pool, or the main thread alone.
Runs(w) == parallel \/ w = 1

\* The mutation: the items not yet taken are dropped once one is taken.
for_each_rest_dropped(items, t) == {}

\* tasks.par_iter().for_each(op) and tasks.iter().for_each(op): what is left
\* to hand to op once the item t has been handed out.
for_each_rest(items, t) == items \ {t}

\* op up to the lock: a thread takes a Todo, renders it (the render reads the
\* fonts only) and acquires the writer's mutex.
WStart(w) ==
  /\ pc = "render"
  /\ Runs(w)
  /\ wk[w].pc = "idle"
  /\ ~poisoned
  /\ MutexFree(holder)
  /\ \E t \in todo, size \in PayloadSizes :
       /\ todo' = for_each_rest(todo, t)
       /\ wk' = [wk EXCEPT ![w] = [pc |-> "locked", task |-> t, size |-> size]]
  /\ holder' = w
  /\ UNCHANGED <<ringVars, fnVars, tarVars>>
  /\ UNCHANGED <<managerVars, blockVars, runVars, poisoned, panicked, ioFailed, writerVars>>

\* op up to the lock, the mutex poisoned: lock().unwrap() panics.
WStartPoisoned(w) ==
  /\ pc = "render"
  /\ Runs(w)
  /\ wk[w].pc = "idle"
  /\ poisoned
  /\ parallel
  /\ \E t \in todo : todo' = for_each_rest(todo, t)
  /\ panicked' = TRUE
  /\ UNCHANGED <<ringVars, fnVars, tarVars>>
  /\ UNCHANGED <<managerVars, blockVars, runVars, wk, holder, poisoned, ioFailed, writerVars>>

\* write_file(..).unwrap() on an Err: the thread panics with the guard alive,
\* which poisons the mutex and releases it.
WriteFailed(w) ==
  /\ wk' = [wk EXCEPT ![w] = Idle]
  /\ holder' = IF holder = w THEN 0 ELSE holder
  /\ poisoned' = TRUE
  /\ panicked' = TRUE
  /\ ioFailed' = TRUE

\* write_file has returned Ok: the guard is dropped, progress.inc.
WriteDone(w) ==
  /\ wk' = [wk EXCEPT ![w] = Idle]
  /\ holder' = IF holder = w THEN 0 ELSE holder
  /\ UNCHANGED <<poisoned, panicked, ioFailed>>

\* FileWriter::write_file under the lock: std::fs::write.
WFileWrite(w) ==
  /\ pc = "render"
  /\ mode = "file"
  /\ wk[w].pc = "locked"
  /\ fileCalls' = AddCall(fileCalls, file_name(wk[w].task))
  /\ \E ok \in BOOLEAN : IF ok THEN WriteDone(w) ELSE WriteFailed(w)
  /\ UNCHANGED <<ringVars, fnVars, tarVars>>
  /\ UNCHANGED <<managerVars, blockVars, runVars, todo, dirCalls, finishes, tail>>

\* TarWriter::write_file under the lock, its write_header.
WHeader(w) ==
  /\ pc = "render"
  /\ mode = "tar"
  /\ wk[w].pc = "locked"
  /\ fileCalls' = AddCall(fileCalls, file_name(wk[w].task))
  /\ \E ok \in BOOLEAN :
       IF ok
       THEN /\ tail' = HeaderChunk(file_name(wk[w].task), wk[w].size)
            /\ wk' = [wk EXCEPT ![w].pc = "header"]
            /\ UNCHANGED <<holder, poisoned, panicked, ioFailed>>
       ELSE WriteFailed(w) /\ tail' = tail
  /\ UNCHANGED <<ringVars, fnVars, tarVars>>
  /\ UNCHANGED <<managerVars, blockVars, runVars, todo, dirCalls, finishes>>

\* TarWriter::write_file: write_all(bytes); the call returns here when the
\* size is a multiple of the block size.
WPayload(w) ==
  /\ pc = "render"
  /\ wk[w].pc = "header"
  /\ \E ok \in BOOLEAN :
       IF ok
       THEN /\ tail' = PayloadChunk(file_name(wk[w].task), wk[w].size)
            /\ IF wk[w].size % TAR_BLOCK = 0
               THEN WriteDone(w)
               ELSE /\ wk' = [wk EXCEPT ![w].pc = "payload"]
                    /\ UNCHANGED <<holder, poisoned, panicked, ioFailed>>
       ELSE WriteFailed(w) /\ tail' = tail
  /\ UNCHANGED <<ringVars, fnVars, tarVars>>
  /\ UNCHANGED <<managerVars, blockVars, runVars, todo, dirCalls, fileCalls, finishes>>

\* TarWriter::write_file: the padding to the block boundary, and the return.
WPad(w) ==
  /\ pc = "render"
  /\ wk[w].pc = "payload"
  /\ \E ok \in BOOLEAN :
       IF ok
       THEN tail' = PadChunk(file_name(wk[w].task), wk[w].size) /\ WriteDone(w)
       ELSE WriteFailed(w) /\ tail' = tail
  /\ UNCHANGED <<ringVars, fnVars, tarVars>>
  /\ UNCHANGED <<managerVars, blockVars, runVars, todo, dirCalls, fileCalls, finishes>>

\* render_glyphs: for_each returns, or the panic of an op goes on to the
\* caller.  On the main thread alone the first panic ends the loop; in the
\* pool the panic is resumed once no thread is in op, and Todo's not yet
\* taken may be left.
EndRender ==
  /\ pc = "render"
  /\ \A w \in Workers : wk[w].pc = "idle"
  /\ todo = {} \/ panicked
  /\ renderResult' = IF panicked THEN "panic" ELSE "ok"
  /\ runResult' = IF panicked THEN "panic" ELSE runResult
  /\ pc' = IF panicked THEN "drop" ELSE StageAfter("render")
  /\ UNCHANGED <<ringVars, fnVars, tarVars>>
  /\ UNCHANGED <<managerVars, blockVars, parallel, script, mode, visited, tasks,
                 workerVars, writerVars>>

\* run: write_index_json unless args.no_index.
WriteIndex ==
  /\ pc = "index"
  /\ \E no_index \in BOOLEAN, ok \in BOOLEAN, keys \in Orders(Ids(fonts)) :
       IF no_index
       THEN /\ pc' = StageAfter("index")
            /\ UNCHANGED <<indexJson, lastCall, runResult, fileCalls, tail>>
       ELSE /\ indexJson' = build_index_json(keys)
            /\ lastCall' = [op |-> "write_index_json", name |-> <<>>, sources |-> <<>>,
                            kind |-> IF ok THEN "ok" ELSE "err", ctx |-> {}]
            /\ MainWriteFile(INDEX_JSON, Len(build_index_json(keys)), ok)
            /\ pc' = IF ok THEN StageAfter("index") ELSE "drop"
            /\ runResult' = IF ok THEN runResult ELSE "err"
  /\ UNCHANGED <<ringVars, fnVars, tarVars>>
  /\ UNCHANGED <<fonts, calls, familiesJson, blockVars, parallel, script, mode, visited, tasks,
                 renderResult, workerVars, dirCalls, finishes>>

\* run: write_families_json unless args.no_families; get_metadata unwraps
\* the first file of each group.
WriteFamilies ==
  /\ pc = "families"
  /\ \E no_families \in BOOLEAN, ok \in BOOLEAN, order \in Orders(fonts) :
       IF no_families
       THEN /\ pc' = StageAfter("families")
            /\ UNCHANGED <<familiesJson, lastCall, runResult, fileCalls, tail>>
       ELSE IF HasEmptyGroup(fonts)
       THEN /\ pc' = "drop"
            /\ runResult' = "panic"
            /\ lastCall' = [op |-> "write_families_json", name |-> <<>>, sources |-> <<>>,
                            kind |-> "panic", ctx |-> {}]
            /\ UNCHANGED <<familiesJson, fileCalls, tail>>
       ELSE /\ familiesJson' = build_font_families_json(order)
            /\ lastCall' = [op |-> "write_families_json", name |-> <<>>, sources |-> <<>>,
                            kind |-> IF ok THEN "ok" ELSE "err", ctx |-> {}]
            /\ MainWriteFile(FAMILIES_JSON, Len(build_font_families_json(order)), ok)
            /\ pc' = IF ok THEN StageAfter("families") ELSE "drop"
            /\ runResult' = IF ok THEN runResult ELSE "err"
  /\ UNCHANGED <<ringVars, fnVars, tarVars>>
  /\ UNCHANGED <<fonts, calls, indexJson, blockVars, parallel, script, mode, visited, tasks,
                 renderResult, workerVars, dirCalls, finishes>>

\* Writer::finish on the writer of the run.
WriterFinish(ok) ==
  /\ finishes' = finishes + 1
  /\ tail' = IF mode = "tar" /\ ok THEN [part |-> "eof", name |-> <<>>, rem |-> 0] ELSE tail
  /\ UNCHANGED <<dirCalls, fileCalls>>

\* run: writer.finish()?
Finish ==
  /\ pc = "finish"
  /\ \E ok \in Outcomes(TRUE) :
       /\ WriterFinish(ok)
       /\ runResult' = IF ok THEN "ok" ELSE "err"
  /\ pc' = StageAfter("finish")
  /\ UNCHANGED <<ringVars, fnVars, tarVars>>
  /\ UNCHANGED <<managerVars, blockVars, parallel, script, mode, visited, tasks,
                 renderResult, workerVars>>

\* The writer goes out of scope, by return or by unwinding: Drop for Writer
\* calls finish().unwrap().
Drop ==
  /\ pc = "drop"
  /\ \E ok \in Outcomes(TRUE) :
       /\ WriterFinish(ok)
       /\ runResult' = IF ok THEN runResult ELSE "panic"
  /\ pc' = "done"
  /\ UNCHANGED <<ringVars, fnVars, tarVars>>
  /\ UNCHANGED <<managerVars, blockVars, parallel, script, mode, visited, tasks,
                 renderResult, workerVars>>

Next ==
  \/ Load
  \/ OpenWriter
  \/ PrepassGroup
  \/ BeginRender
  \/ \E w \in Workers : WStart(w)
  \/ \E w \in Workers : WStartPoisoned(w)
  \/ \E w \in Workers : WFileWrite(w)
  \/ \E w \in Workers : WHeader(w)
  \/ \E w \in Workers : WPayload(w)
  \/ \E w \in Workers : WPad(w)
  \/ EndRender
  \/ WriteIndex
  \/ WriteFamilies
  \/ Finish
  \/ Drop

Spec == Init /\ [][Next]_vars


(***************************************************************************)
(* Properties of the run.                                                  *)
(***************************************************************************)
\* The block files among the write_file calls made so far.
BlockFilesWritten == DOMAIN fileCalls \ {INDEX_JSON, FAMILIES_JSON}

\* The name of the block file of a group for the block starting at start.
BlockFile(id, start) == file_name([name |-> id, block |-> GlyphBlock_new(start)])

\* The starts of the blocks of a group in which a codepoint is mapped.
FilledStarts(files) ==
  {(cp \div GLYPH_BLOCK_SIZE) * GLYPH_BLOCK_SIZE : cp \in Covered(files)}

\* The starts of the blocks get_blocks begins with.
PreStarts == {i * GLYPH_BLOCK_SIZE : i \in 0..(NumPreBlocks - 1)}

\* C2, as stated: once render_glyphs has returned Ok, the block files written
\* for a group are those of the blocks in which a codepoint is mapped, one
\* each, and no file is written for a block without a mapped codepoint.
C2_OneFilePerNonEmptyBlock ==
  renderResult = "ok" =>
    \A e \in fonts :
      \A start \in PreStarts \cup FilledStarts(e.files) :
        CallsOf(BlockFile(e.id, start)) = IF start \in FilledStarts(e.files) THEN 1 ELSE 0

\* C2, amended: once render_glyphs has returned Ok, exactly one file has been
\* written for every pre-initialised block of a group, filled or not, and
\* for every block beyond them in which a codepoint is mapped; no other
\* block file has been written.
C2_OneFilePerReturnedBlock ==
  renderResult = "ok" =>
    /\ \A e \in fonts :
         \A start \in PreStarts \cup FilledStarts(e.files) :
           CallsOf(BlockFile(e.id, start)) = 1
    /\ BlockFilesWritten =
         UNION {{BlockFile(e.id, start) : start \in PreStarts \cup FilledStarts(e.files)} :
                  e \in fonts}

\* A run in which render_glyphs has written the file of an empty
\* pre-initialised block and the file of a filled block beyond them.
C2_Witness ==
  /\ renderResult = "ok"
  /\ \E e \in fonts :
       /\ \E start \in PreStarts \ FilledStarts(e.files) :
            CallsOf(BlockFile(e.id, start)) = 1
       /\ \E start \in FilledStarts(e.files) \ PreStarts :
            CallsOf(BlockFile(e.id, start)) = 1

\* C3: whenever a block file has reached the writer, write_directory has
\* been called for every group of the manager, the group of that file
\* included.
C3_DirectoriesBeforeBlockFiles ==
  BlockFilesWritten # {} =>
    /\ \A e \in fonts : dir_name(e.id) \in dirCalls
    /\ \A n \in BlockFilesWritten :
         \E e \in fonts :
           /\ dir_name(e.id) \in dirCalls
           /\ Len(n) > Len(dir_name(e.id))
           /\ SubSeq(n, 1, Len(dir_name(e.id))) = dir_name(e.id)

\* Block files are being written for a manager of two groups.
C3_Witness ==
  /\ pc = "render"
  /\ Cardinality(fonts) = 2
  /\ BlockFilesWritten # {}
  /\ todo # {}

\* A thread is executing writer.write_file (it holds the guard).
InWriteFile(w) == wk[w].pc \in {"locked", "header", "payload"}

EntryParts == {"header", "payload", "pad", "dirheader"}

\* During the render stage the chunks of one tar entry are contiguous:
\* after a header comes the payload of the same entry, after a payload that
\* needs padding comes the padding of the same entry, and no chunk of
\* another entry in between.
EntryContiguous ==
  (pc = "render" /\ tail' # tail /\ tail'.part \in EntryParts) =>
    /\ tail.part = "header" => tail' = [tail EXCEPT !.part = "payload"]
    /\ (tail.part = "payload" /\ tail.rem # 0) => tail' = [tail EXCEPT !.part = "pad"]
    /\ tail'.part = "payload" => tail.part = "header"
    /\ tail'.part = "pad" => tail.part = "payload"

\* C4: at any time at most one thread is executing writer.write_file, and in
\* tar mode the header, payload and padding of an entry are written with
\* no chunk of another entry between them.
C4_WriteFileSerialized ==
  /\ [](\A v, w \in Workers : (InWriteFile(v) /\ InWriteFile(w)) => v = w)
  /\ [][EntryContiguous]_vars

\* A thread of the pool is between the payload and the padding of a tar
\* entry while another thread is free and a Todo is left to take.
C4_Witness ==
  /\ parallel
  /\ mode = "tar"
  /\ pc = "render"
  /\ \E v, w \in Workers :
       /\ wk[v].pc = "payload"
       /\ wk[w].pc = "idle"
  /\ todo # {}

\* index.json or font_families.json has reached the writer.
JsonWritten == CallsOf(INDEX_JSON) > 0 \/ CallsOf(FAMILIES_JSON) > 0

\* C5: index.json and font_families.json reach the writer only when
\* render_glyphs has returned Ok with every block file written; once finish
\* has been called no write_file or write_directory is made; and a run
\* that returns Ok has called finish.
C5_JsonAfterBlocksThenFinish ==
  /\ [](JsonWritten =>
          /\ renderResult = "ok"
          /\ Ids(fonts) \subseteq visited
          /\ todo = {}
          /\ \A t \in tasks : CallsOf(file_name(t)) = 1)
  /\ [][finishes > 0 => UNCHANGED <<dirCalls, fileCalls>>]_vars
  /\ [](runResult = "ok" => finishes > 0)
  /\ [][(finishes = 0 /\ finishes' > 0) => pc \in {"finish", "drop"}]_vars

\* A run over two groups that has written both JSON files and has finished.
C5_Witness ==
  /\ pc = "done"
  /\ runResult = "ok"
  /\ Cardinality(fonts) = 2
  /\ CallsOf(INDEX_JSON) = 1
  /\ CallsOf(FAMILIES_JSON) = 1
  /\ finishes = 2

\* The Todo's the serial loop of render_glyphs collects for a manager.
TasksOf(fs) == UNION {{[name |-> e.id, block |-> b] : b \in get_blocks(e.files)} : e \in fs}

\* C22: once render_glyphs has returned Ok, in the pool or on the main
\* thread alone, every Todo of the manager has been passed to write_file
\* exactly once under the name id/S-E.pbf, and the block files written are
\* the names of these Todo's and no others, whatever the mode.
C22_EachTaskWrittenOnce ==
  renderResult = "ok" =>
    /\ tasks = TasksOf(fonts)
    /\ \A t \in TasksOf(fonts) :
         CallsOf(t.name \o <<"/">> \o DecStr(t.block.start_index) \o <<"-">>
                   \o DecStr(t.block.start_index + GLYPH_BLOCK_SIZE - 1)
                   \o <<".", "p", "b", "f">>) = 1
    /\ BlockFilesWritten = {file_name(t) : t \in TasksOf(fonts)}
    /\ Cardinality(BlockFilesWritten) = Cardinality(TasksOf(fonts))

\* The pool has written the blocks of two groups, more than one per group,
\* and render_glyphs has returned Ok.
C22_Witness ==
  /\ parallel
  /\ renderResult = "ok"
  /\ Cardinality(fonts) = 2
  /\ \A e \in fonts : Cardinality({t \in tasks : t.name = e.id}) >= 2
  /\ \A t \in tasks : CallsOf(file_name(t)) = 1

\* The main thread alone has done the same.
C22_WitnessSerial ==
  /\ ~parallel
  /\ renderResult = "ok"
  /\ Cardinality(fonts) = 2
  /\ \A t \in tasks : CallsOf(file_name(t)) = 1

\* C7, as stated: if write_file has returned an error for a block, then
\* render_glyphs ends, and ends by returning an error result.
C7_WriteFileErrorIsErrResult ==
  (ioFailed /\ renderResult # "none") => renderResult = "err"


(***************************************************************************)
(* The two writers, byte by byte.  The TarWriter's output is the sequence  *)
(* of bytes handed to its BufWriter; the FileWriter's output is the tree   *)
(* under its folder, a map from relative path to [kind, bytes].            *)
(***************************************************************************)
Zeros(n) == [i \in 1..n |-> 0]

\* ZEROS_1K
ZEROS_1K == Zeros(2 * TAR_BLOCK)

\* write_octal on a buffer of len bytes: a final space, the octal digits of
\* val filled from the right, the digits that do not fit dropped.
write_octal(len, val) ==
  [i \in 1..len |-> IF i = len THEN 32 ELSE 48 + ((val \div (8 ^ (len - 1 - i))) % 8)]

\* write_string on a zeroed buffer of len bytes: the first len bytes of s.
write_string(len, s) == [i \in 1..len |-> IF i <= Len(s) THEN Code(s[i]) ELSE 0]

RECURSIVE SumRange(_, _, _)
\* The sum of the bytes lo .. hi of a sequence.
SumRange(bs, lo, hi) ==
  IF lo > hi THEN 0
  ELSE IF lo = hi THEN bs[lo]
  ELSE SumRange(bs, lo, (lo + hi) \div 2) + SumRange(bs, (lo + hi) \div 2 + 1, hi)

\* b"ustar\0"
USTAR_MAGIC == <<117, 115, 116, 97, 114, 0>>

\* write_header before the checksum is computed: the fields at their
\* offsets, the checksum field filled with spaces.
HeaderDraft(path, size, fmode, typeflag, mtime) ==
  LET nameField == write_string(100, path)
      modeField == write_octal(8, fmode)
      idField == write_octal(8, 0)
      sizeField == write_octal(12, size)
      mtimeField == write_octal(12, mtime)
  IN  [i \in 1..TAR_BLOCK |->
         LET o == i - 1
         IN  CASE o < 100 -> nameField[o + 1]
               [] o \in 100..107 -> modeField[o - 99]
               [] o \in 108..115 -> idField[o - 107]
               [] o \in 116..123 -> idField[o - 115]
               [] o \in 124..135 -> sizeField[o - 123]
               [] o \in 136..147 -> mtimeField[o - 135]
               [] o \in 148..155 -> 32
               [] o = 156 -> typeflag
               [] o \in 257..262 -> USTAR_MAGIC[o - 256]
               [] o \in 263..264 -> 48
               [] OTHER -> 0]

\* TarWriter::write_header: the 512 bytes written.
write_header(path, size, fmode, typeflag, mtime) ==
  LET draft == HeaderDraft(path, size, fmode, typeflag, mtime)
      csum == write_octal(8, SumRange(draft, 1, TAR_BLOCK))
  IN  [i \in 1..TAR_BLOCK |-> IF i - 1 \in 148..155 THEN csum[i - 148] ELSE draft[i]]

\* The mutation: no zeros are written after the contents.
PaddingNone(size) == <<>>

\* TarWriter::write_file: the zeros after the contents.
Padding(size) ==
  IF size % TAR_BLOCK # 0 THEN Zeros(TAR_BLOCK - (size % TAR_BLOCK)) ELSE <<>>

\* TarWriter::write_file: the bytes written (mode 0o644, typeflag b'0').
tar_write_file(path, bytes, mtime) ==
  write_header(path, Len(bytes), 420, 48, mtime) \o bytes \o Padding(Len(bytes))

EndsWithSlash(s) == s # <<>> /\ s[Len(s)] = "/"

\* TarWriter::write_directory: Err when the name does not end with a slash,
\* else the header written (mode 0o755, typeflag b'5').
tar_write_directory(dirname, mtime) ==
  IF EndsWithSlash(dirname)
  THEN [ok |-> TRUE, bytes |-> write_header(dirname, 0, 493, 53, mtime)]
  ELSE [ok |-> FALSE, bytes |-> <<>>]

\* TarWriter::finish: the bytes written.
tar_finish == ZEROS_1K

DirNode == [kind |-> "dir", bytes |-> <<>>]

FileNode(bytes) == [kind |-> "file", bytes |-> bytes]

Put(tree, key, node) ==
  [k \in DOMAIN tree \cup {key} |-> IF k = key THEN node ELSE tree[k]]

\* The directories on the way to a relative path: one for every slash that
\* follows a component.
Ancestors(p) == {SubSeq(p, 1, i - 1) : i \in {j \in 2..Len(p) : p[j] = "/"}}

IsDir(tree, key) == key \in DOMAIN tree /\ tree[key].kind = "dir"

IsFile(tree, key) == key \in DOMAIN tree /\ tree[key].kind = "file"

\* The tree with every key of a set made a directory.
MakeDirs(tree, keys) ==
  [k \in DOMAIN tree \cup keys |-> IF k \in keys THEN DirNode ELSE tree[k]]

\* FileWriter::write_file: std::fs::write of folder.join(file_name); Err
\* when the parent is not a directory or the path is one.
file_write_file(tree, p, bytes) ==
  IF /\ ~EndsWithSlash(p)
     /\ \A a \in Ancestors(p) : IsDir(tree, a)
     /\ ~IsDir(tree, p)
  THEN [ok |-> TRUE, tree |-> Put(tree, p, FileNode(bytes))]
  ELSE [ok |-> FALSE, tree |-> tree]

\* FileWriter::write_directory: create_dir_all of folder.join(dir_name); Err
\* when a component is a file.
file_write_directory(tree, p) ==
  LET keys == Ancestors(p) \cup (IF EndsWithSlash(p) THEN {} ELSE {p})
  IN  IF \A a \in keys : ~IsFile(tree, a)
      THEN [ok |-> TRUE, tree |-> MakeDirs(tree, keys)]
      ELSE [ok |-> FALSE, tree |-> tree]

(***************************************************************************)
(* A ustar reader: the entries of an archive, and the tree their           *)
(* extraction leaves.                                                      *)
(***************************************************************************)
RECURSIVE OctalValue(_, _, _, _)
\* The value of the octal digits at i .. last, up to the first byte that is
\* not a digit.
OctalValue(bs, i, last, acc) ==
  IF i > last \/ bs[i] \notin 48..55 THEN acc
  ELSE OctalValue(bs, i + 1, last, acc * 8 + (bs[i] - 48))

\* The string in a field of n bytes after pos: up to the first NUL, or the
\* whole field.
FieldString(bs, pos, n) ==
  LET k == CHOOSE j \in 0..n :
             /\ j = n \/ bs[pos + j + 1] = 0
             /\ \A m \in 1..j : bs[pos + m] # 0
  IN  [i \in 1..k |-> Chr(bs[pos + i])]

\* The checksum of the header after pos, its own field counted as spaces.
HeaderSum(bs, pos) ==
  SumRange(bs, pos + 1, pos + 148) + 8 * 32 + SumRange(bs, pos + 157, pos + TAR_BLOCK)

RECURSIVE TarEntries(_, _, _)
\* The entries read from offset pos on; reading ends at the end of the
\* data, at a block of zeros, or at a header that cannot be accepted.
TarEntries(bs, pos, acc) ==
  IF pos + TAR_BLOCK > Len(bs) THEN acc
  ELSE IF \A i \in (pos + 1)..(pos + TAR_BLOCK) : bs[i] = 0 THEN acc
  ELSE LET size == OctalValue(bs, pos + 125, pos + 136, 0)
           blocks == (size + TAR_BLOCK - 1) \div TAR_BLOCK
       IN  IF \/ OctalValue(bs, pos + 149, pos + 156, 0) # HeaderSum(bs, pos)
              \/ pos + TAR_BLOCK + blocks * TAR_BLOCK > Len(bs)
           THEN acc
           ELSE TarEntries(bs, pos + TAR_BLOCK + blocks * TAR_BLOCK,
                           Append(acc, [name |-> FieldString(bs, pos, 100),
                                        typeflag |-> bs[pos + 157],
                                        bytes |-> SubSeq(bs, pos + TAR_BLOCK + 1,
                                                         pos + TAR_BLOCK + size)]))

RECURSIVE Extract(_, _, _)
\* The tree left by extracting the entries from the i-th on: a directory
\* entry makes its directory, a file entry its file, both with the
\* directories on the way.
Extract(entries, i, tree) ==
  IF i > Len(entries) THEN tree
  ELSE LET e == entries[i]
           withDirs == MakeDirs(tree, Ancestors(e.name))
       IN  Extract(entries, i + 1,
                   IF e.typeflag = 53 \/ EndsWithSlash(e.name) THEN withDirs
                   ELSE Put(withDirs, e.name, FileNode(e.bytes)))

TarTree(bs) == Extract(TarEntries(bs, 0, <<>>), 1, <<>>)

(***************************************************************************)
(* The writer equivalence specification: the same calls are made on a      *)
(* TarWriter and on a FileWriter.                                          *)
(***************************************************************************)
\* The archive may grow while it is shorter than this many blocks.
MaxTarBlocks == 2

RepeatChar(c, n) == [i \in 1..n |-> c]

\* The file names written: short ones, one in a directory, and two around
\* the length of the header's name field.
FileNames ==
  { <<"a">>, <<"d", "/", "b">>, RepeatChar("x", 100), RepeatChar("x", 100) \o <<"y">> }

DirNames == { <<"d", "/">> }

\* The contents written: none, some, a whole block.
Payloads == { <<>>, <<1, 2, 255>>, [i \in 1..TAR_BLOCK |-> 7] }

\* What SystemTime::now gives as seconds since the epoch.
Mtimes == {0, 1700000000}

TInit ==
  /\ BlocksIdle
  /\ ManagerIdle
  /\ RunIdle
  /\ TarIdle
  /\ RingIdle
  /\ FnIdle

TOpen == ~werr /\ closed = 0 /\ Len(archive) < MaxTarBlocks * TAR_BLOCK

\* write_file on both writers.
TWriteFile ==
  /\ TOpen
  /\ \E n \in FileNames, bytes \in Payloads, mtime \in Mtimes :
       LET f == file_write_file(disk, n, bytes)
       IN  /\ archive' = archive \o tar_write_file(n, bytes, mtime)
           /\ entrySizes' = Append(entrySizes, Len(bytes))
           /\ disk' = f.tree
           /\ werr' = ~f.ok
  /\ UNCHANGED ringVars
  /\ UNCHANGED <<fnVars, closed, managerVars, blockVars, runVars, workerVars, writerVars>>

\* write_directory on both writers.
TWriteDirectory ==
  /\ TOpen
  /\ \E n \in DirNames, mtime \in Mtimes :
       LET t == tar_write_directory(n, mtime)
           f == file_write_directory(disk, n)
       IN  /\ archive' = archive \o t.bytes
           /\ entrySizes' = IF t.ok THEN Append(entrySizes, 0) ELSE entrySizes
           /\ disk' = f.tree
           /\ werr' = (~t.ok \/ ~f.ok)
  /\ UNCHANGED ringVars
  /\ UNCHANGED <<fnVars, closed, managerVars, blockVars, runVars, workerVars, writerVars>>

\* finish on both writers, by run and again by Drop.
TFinish ==
  /\ ~werr
  /\ closed < 2
  /\ archive' = archive \o tar_finish
  /\ closed' = closed + 1
  /\ UNCHANGED ringVars
  /\ UNCHANGED <<fnVars, disk, werr, entrySizes, managerVars, blockVars, runVars, workerVars,
                 writerVars>>

TNext == TWriteFile \/ TWriteDirectory \/ TFinish

SpecTar == TInit /\ [][TNext]_vars

\* C6, as stated: after the same successful calls, the tree read back from
\* the archive is the tree the file writer has left, names and contents.
C6_TarDecodesToFileTree == ~werr => TarTree(archive) = disk

\* The same, for calls whose names fit the header's name field.
TarTreeShortNames ==
  (~werr /\ \A n \in DOMAIN disk : Len(n) <= 100) => TarTree(archive) = disk

\* The blocks an entry of this size takes: the header and the contents.
EntryBlocks(size) == 1 + (size + TAR_BLOCK - 1) \div TAR_BLOCK

RECURSIVE BlocksBefore(_, _)
\* The blocks of the first k entries of a list of sizes.
BlocksBefore(sizes, k) ==
  IF k = 0 THEN 0 ELSE BlocksBefore(sizes, k - 1) + EntryBlocks(sizes[k])

\* C28: the k-th entry written starts with a header (its checksum is right
\* and its size field is the size written) at the offset 512 times the
\* blocks of the entries before it, the bytes from the end of its contents
\* to the next multiple of 512 are zero, none when the size is a multiple
\* of 512, and after one finish the length of the output is 512 times the
\* blocks of all entries plus 2.
C28_TarBlockLayout ==
  /\ \A k \in 1..Len(entrySizes) :
       LET pos == TAR_BLOCK * BlocksBefore(entrySizes, k - 1)
           next == TAR_BLOCK * BlocksBefore(entrySizes, k)
       IN  /\ next <= Len(archive)
           /\ OctalValue(archive, pos + 149, pos + 156, 0) = HeaderSum(archive, pos)
           /\ OctalValue(archive, pos + 125, pos + 136, 0) = entrySizes[k]
           /\ \A i \in (pos + TAR_BLOCK + entrySizes[k] + 1)..next : archive[i] = 0
           /\ entrySizes[k] % TAR_BLOCK = 0 => next = pos + TAR_BLOCK + entrySizes[k]
  /\ closed = 0 => Len(archive) = TAR_BLOCK * BlocksBefore(entrySizes, Len(entrySizes))
  /\ closed = 1 => Len(archive) = TAR_BLOCK * (BlocksBefore(entrySizes, Len(entrySizes)) + 2)

\* A file whose contents need padding has been written after another entry,
\* and finish has been called once.
C28_Witness ==
  /\ closed = 1
  /\ Len(entrySizes) = 2
  /\ entrySizes[2] % TAR_BLOCK # 0
  /\ Len(archive) = 5 * TAR_BLOCK

\* A file of a whole block has been written after another entry.
C28_WitnessWholeBlock ==
  /\ closed = 1
  /\ Len(entrySizes) = 2
  /\ entrySizes[2] = TAR_BLOCK

\* The k-th block from the end of the archive is all zero.
ZeroBlockFromEnd(bs, k) ==
  \A i \in (Len(bs) - k * TAR_BLOCK + 1)..(Len(bs) - (k - 1) * TAR_BLOCK) : bs[i] = 0

\* The number of zero blocks the archive ends with.  The last block of every
\* entry written here holds a non-zero byte, so these are the blocks after
\* the last entry.
TrailingZeroBlocks(bs) ==
  Cardinality({k \in 1..(Len(bs) \div TAR_BLOCK) : \A j \in 1..k : ZeroBlockFromEnd(bs, j)})

\* C23: once the writer has been finished by the run and then dropped, the
\* archive ends with exactly two zero blocks after its last entry: the
\* end-of-archive marker has been written once.
C23_EndMarkerOnce == closed = 2 => TrailingZeroBlocks(archive) = 2


(***************************************************************************)
(* Properties of font_families.json.                                       *)
(***************************************************************************)
\* The number of backslashes that end right before position i.
BackslashRun(text, i) ==
  Cardinality({n \in 0..(i - 1) : \A m \in 1..n : text[i - m] = "\\"}) - 1

\* The positions of the quotes that open or close a string literal: those
\* after an even number of backslashes.
QuotePositions(text) ==
  {i \in 1..Len(text) : text[i] = "\"" /\ BackslashRun(text, i) % 2 = 0}

\* The n-th smallest element of a set of numbers.
NthOf(S, n) == CHOOSE i \in S : Cardinality({j \in S : j < i}) = n - 1

RECURSIVE JsonUnescape(_)
\* The characters of a string literal's body.
JsonUnescape(body) ==
  IF body = <<>> THEN <<>>
  ELSE IF Head(body) = "\\" /\ Len(body) > 1
       THEN <<body[2]>> \o JsonUnescape(SubSeq(body, 3, Len(body)))
  ELSE <<Head(body)>> \o JsonUnescape(Tail(body))

\* The string literals of a JSON text, unescaped, in the order of the text.
JsonStrings(text) ==
  LET q == QuotePositions(text)
  IN  [k \in 1..(Cardinality(q) \div 2) |->
         JsonUnescape(SubSeq(text, NthOf(q, 2 * k - 1) + 1, NthOf(q, 2 * k) - 1))]

KEY_NAME == <<"n", "a", "m", "e">>
KEY_FACES == <<"f", "a", "c", "e", "s">>
KEY_ID == <<"i", "d">>
KEY_STYLE == <<"s", "t", "y", "l", "e">>
KEY_WEIGHT == <<"w", "e", "i", "g", "h", "t">>
KEY_WIDTH == <<"w", "i", "d", "t", "h">>
KEY_CODEBLOCKS == <<"c", "o", "d", "e", "b", "l", "o", "c", "k", "s">>

RECURSIVE ReadFamilies(_, _, _)
\* A reader of the strings of font_families.json: at a key position "name"
\* opens a family (name, then the key "faces"), "id" opens a face of the
\* last family (id, style, the key of the numeric weight, width,
\* codeblocks).  The result is [ok, families], a family [name, ids].
ReadFamilies(strs, i, acc) ==
  IF i > Len(strs) THEN [ok |-> TRUE, families |-> acc]
  ELSE IF strs[i] = KEY_NAME /\ i + 2 <= Len(strs) /\ strs[i + 2] = KEY_FACES
       THEN ReadFamilies(strs, i + 3, Append(acc, [name |-> strs[i + 1], ids |-> <<>>]))
  ELSE IF /\ strs[i] = KEY_ID
          /\ acc # <<>>
          /\ i + 8 <= Len(strs)
          /\ strs[i + 2] = KEY_STYLE
          /\ strs[i + 4] = KEY_WEIGHT
          /\ strs[i + 5] = KEY_WIDTH
          /\ strs[i + 7] = KEY_CODEBLOCKS
       THEN ReadFamilies(strs, i + 9,
                         [acc EXCEPT ![Len(acc)].ids = Append(@, strs[i + 1])])
  ELSE [ok |-> FALSE, families |-> <<>>]

ParseFamilies(text) == ReadFamilies(JsonStrings(text), 1, <<>>)

\* The places (family, face) at which an id is listed.
PlacesOf(fams, id) ==
  {<<k, j>> \in (1..Len(fams)) \X (1..3 * MaxAdds) :
     j <= Len(fams[k].ids) /\ fams[k].ids[j] = id}

\* C24: after add_path and add_font_with_name calls that returned Ok, with
\* an empty source list or not, every group of the manager has at least one
\* file, and write_families_json does not panic on an empty group.
C24_NoEmptyGroup ==
  /\ (lastCall.op \in {"add_path", "add_font_with_name"} /\ lastCall.kind = "ok") =>
       \A e \in fonts : e.files # <<>>
  /\ lastCall.op = "write_families_json" => lastCall.kind = "ok"

\* C11: font_families.json lists every id of the manager in the faces of
\* exactly one family, the family of the first file added to the group, and
\* lists no other id; the family names are unique and ascending.
C11_FamiliesPartitionIds ==
  (lastCall.op = "write_families_json" /\ lastCall.kind = "ok") =>
    LET r == ParseFamilies(familiesJson)
        fams == r.families
    IN  /\ r.ok
        /\ \A e \in fonts :
             /\ Cardinality(PlacesOf(fams, e.id)) = 1
             /\ \A pl \in PlacesOf(fams, e.id) : fams[pl[1]].name = Meta(e.files[1]).family
        /\ \A k \in 1..Len(fams) :
             /\ fams[k].ids # <<>>
             /\ \A j \in 1..Len(fams[k].ids) : fams[k].ids[j] \in Ids(fonts)
        /\ \A k \in 1..(Len(fams) - 1) : StrLess(fams[k].name, fams[k + 1].name)

\* font_families.json has been written for a manager of two families, with
\* a group whose first and last files name different families.
C11_Witness ==
  /\ lastCall.op = "write_families_json"
  /\ lastCall.kind = "ok"
  /\ Len(ParseFamilies(familiesJson).families) = 2
  /\ \E e \in fonts :
       /\ Len(e.files) > 1
       /\ Meta(e.files[1]).family # Meta(e.files[Len(e.files)]).family


(***************************************************************************)
(* The encode_codeblocks specification: the function is applied to a list  *)
(* of codepoints, in any order and with repetitions.                       *)
(***************************************************************************)
\* The longest list of codepoints encoded.
MaxCodepoints == 3

\* Codepoints at the ends of 16-codepoint blocks, in adjacent and in distant
\* blocks, with one- and many-digit block numbers.
CodepointChoices == {0, 15, 16, 32, 47, 64, 160, 175, 4095, 4096}

RECURSIVE SeqsUpTo(_, _)
\* The sequences over S of length at most n.
SeqsUpTo(S, n) ==
  IF n = 0 THEN {<<>>}
  ELSE SeqsUpTo(S, n - 1) \cup {Append(q, x) : q \in SeqsUpTo(S, n - 1), x \in S}

CBInit ==
  /\ BlocksIdle
  /\ ManagerIdle
  /\ RunIdle
  /\ TarIdle
  /\ RingIdle
  /\ fnIn \in SeqsUpTo(CodepointChoices, MaxCodepoints)
  /\ fnOut = <<>>
  /\ fnDone = FALSE

\* encode_codeblocks(&codepoints)
CBEncode ==
  /\ ~fnDone
  /\ fnOut' = encode_codeblocks(fnIn)
  /\ fnDone' = TRUE
  /\ UNCHANGED ringVars
  /\ UNCHANGED <<fnIn, tarVars, managerVars, blockVars, runVars, workerVars, writerVars>>

CBNext == CBEncode

SpecCodeblocks == CBInit /\ [][CBNext]_vars

\* The value of an uppercase hexadecimal digit (a negative number for any
\* other character).
HexValue(c) ==
  IF Code(c) \in 48..57 THEN Code(c) - 48
  ELSE IF Code(c) \in 65..70 THEN Code(c) - 55
  ELSE -1000000

RECURSIVE DecodeBlocks(_, _, _, _, _)
\* A reader of a codeblocks string from position i on: cur is the number
\* being read, start the number before a dash (-1 when there is none), acc
\* the blocks of the parts read.
DecodeBlocks(text, i, start, cur, acc) ==
  LET part == IF start >= 0 THEN start..cur ELSE {cur}
  IN  IF i > Len(text) THEN acc \cup part
      ELSE IF text[i] = "," THEN DecodeBlocks(text, i + 1, -1, 0, acc \cup part)
      ELSE IF text[i] = "-" THEN DecodeBlocks(text, i + 1, cur, 0, acc)
      ELSE DecodeBlocks(text, i + 1, start, cur * 16 + HexValue(text[i]), acc)

\* The set of blocks a codeblocks string stands for.
DecodeCodeblocks(text) == IF text = <<>> THEN {} ELSE DecodeBlocks(text, 1, -1, 0, {})

\* C12: the output of encode_codeblocks, made of uppercase hex digits,
\* commas and dashes, decodes to exactly the set of cp >> 4 of the
\* codepoints given, and is the empty string for the empty list.
C12_CodeblocksRoundTrip ==
  fnDone =>
    /\ \A i \in 1..Len(fnOut) : fnOut[i] \in {",", "-"} \/ HexValue(fnOut[i]) >= 0
    /\ DecodeCodeblocks(fnOut) = {fnIn[i] \div 16 : i \in 1..Len(fnIn)}
    /\ fnIn = <<>> => fnOut = <<>>

\* A list given out of order has been encoded to a range, a comma and a
\* single block written with a letter digit.
C12_Witness ==
  /\ fnDone
  /\ fnIn = <<160, 16, 0>>
  /\ fnOut = <<"0", "-", "1", ",", "A">>

RECURSIVE ReadFaces(_, _, _)
\* A reader of the strings of font_families.json that collects the faces:
\* [id, codeblocks] for every face object, in the order of the text.
ReadFaces(strs, i, acc) ==
  IF i > Len(strs) THEN acc
  ELSE IF strs[i] = KEY_NAME /\ i + 2 <= Len(strs) /\ strs[i + 2] = KEY_FACES
       THEN ReadFaces(strs, i + 3, acc)
  ELSE IF /\ strs[i] = KEY_ID
          /\ i + 8 <= Len(strs)
          /\ strs[i + 7] = KEY_CODEBLOCKS
       THEN ReadFaces(strs, i + 9, Append(acc, [id |-> strs[i + 1], codeblocks |-> strs[i + 8]]))
  ELSE acc

\* The blocks of 16 codepoints in which a file of the group covers a
\* codepoint.
CoveredBlocks(files) == {cp \div 16 : cp \in Covered(files)}

\* C25: in a font_families.json that has been written, the codeblocks
\* string of the face of every group decodes to the set of cp >> 4 of the
\* codepoints covered by any file of the group.
C25_CodeblocksOfGroup ==
  (lastCall.op = "write_families_json" /\ lastCall.kind = "ok") =>
    LET faces == ReadFaces(JsonStrings(familiesJson), 1, <<>>)
    IN  \A e \in fonts :
          \E k \in 1..Len(faces) :
            /\ faces[k].id = e.id
            /\ DecodeCodeblocks(faces[k].codeblocks) = CoveredBlocks(e.files)


(***************************************************************************)
(* The name_to_id specification: the function is applied to a name.        *)
(***************************************************************************)
\* The longest name given.
MaxNameLen == 5

\* An upper-case and a lower-case letter, and the three separators.
NameChars == {"A", "b", "-", "_", " "}

NInit ==
  /\ BlocksIdle
  /\ ManagerIdle
  /\ RunIdle
  /\ TarIdle
  /\ RingIdle
  /\ fnIn \in SeqsUpTo(NameChars, MaxNameLen)
  /\ fnOut = <<>>
  /\ fnDone = FALSE

\* name_to_id(name)
NNameToId ==
  /\ ~fnDone
  /\ fnOut' = name_to_id(fnIn)
  /\ fnDone' = TRUE
  /\ UNCHANGED ringVars
  /\ UNCHANGED <<fnIn, tarVars, managerVars, blockVars, runVars, workerVars, writerVars>>

NNext == NNameToId

SpecNameToId == NInit /\ [][NNext]_vars

\* A hyphen, an underscore or a space.
InRun(c) == c = "-" \/ c = "_" \/ c = " "

\* Position i begins a maximal run of s.
RunStart(s, i) == InRun(s[i]) /\ (i = 1 \/ ~InRun(s[i - 1]))

\* The positions of s kept when every maximal run is replaced by one
\* character: the characters outside runs and the first of every run.
KeptPositions(s) == {i \in 1..Len(s) : ~InRun(s[i]) \/ RunStart(s, i)}

\* s with every maximal run replaced by exactly one underscore.
Underscored(s) ==
  [k \in 1..Cardinality(KeptPositions(s)) |->
     LET i == NthOf(KeptPositions(s), k)
     IN  IF InRun(s[i]) THEN "_" ELSE s[i]]

\* s without an underscore at its start and without one at its end.
WithoutEndUnderscores(s) ==
  LET from == IF s # <<>> /\ s[1] = "_" THEN 2 ELSE 1
      to == IF Len(s) >= from /\ s[Len(s)] = "_" THEN Len(s) - 1 ELSE Len(s)
  IN  SubSeq(s, from, to)

\* The lower-cased name, by the case of its letters alone.
Lowered(s) == [i \in 1..Len(s) |-> IF s[i] = "A" THEN "a" ELSE s[i]]

\* C13, as stated: the id is the lower-cased name with every maximal run of
\* hyphens, underscores and spaces replaced by exactly one underscore, the
\* runs at the start and at the end included.
C13_IdIsUnderscoredName == fnDone => fnOut = Underscored(Lowered(fnIn))

\* C13, amended: the id is the lower-cased name with the runs at its start
\* and at its end removed and every other maximal run of hyphens,
\* underscores and spaces replaced by exactly one underscore.
C13_IdIsTrimmedUnderscoredName ==
  fnDone => fnOut = WithoutEndUnderscores(Underscored(Lowered(fnIn)))

\* The id of a name that begins with a run and has a run of two separators
\* between its letters.
C13_Witness ==
  /\ fnDone
  /\ fnIn = <<"-", "A", " ", "_", "b">>
  /\ fnOut = <<"a", "_", "b">>

(***************************************************************************)
(* Outlines.  RingBuilder receives the outline callbacks of a glyph and    *)
(* collects closed rings.  A coordinate is an f64 obtained from an f32;    *)
(* it is written [c, t] and stands for c / SCALE + t * 2^-70, where one of *)
(* the two parts is zero: the nonzero c used are at least 2^-4 in size and *)
(* the t used are below 2^-58, so that the f64 sum of a value with c # 0   *)
(* and a value with c = 0 rounds to the former, and every sum, difference  *)
(* and half below is the f64 result exactly.                               *)
(***************************************************************************)
\* The number of units of c in 1.0.
SCALE == 4096

\* f64::EPSILON = 2^-52, in the units of t.
EPSILON == 262144

\* RingBuilder::default: precision is 0.01 = 1 / PRECISION_INV.
PRECISION_INV == 100

\* The callbacks made on one RingBuilder, into_rings included.
MaxCallbacks == 5

Num(c, t) == [c |-> c, t |-> t]

\* a + b in f64
FAdd(a, b) ==
  LET c == a.c + b.c
  IN  IF c # 0 THEN Num(c, 0) ELSE Num(0, a.t + b.t)

\* a - b in f64
FSub(a, b) == FAdd(a, Num(0 - b.c, 0 - b.t))

\* a / 2.0 in f64
FHalf(a) == Num(a.c \div 2, a.t \div 2)

\* a * 2.0 in f64
FDouble(a) == Num(2 * a.c, 2 * a.t)

\* a.abs() > f64::EPSILON
AbsGtEpsilon(a) ==
  \/ a.c # 0
  \/ a.t > EPSILON
  \/ 0 - a.t > EPSILON

\* dx * dx + dy * dy <= tolerance_sq, the tolerance being the precision
\* 1 / PRECISION_INV and the sum a whole number of units; the squares of the
\* t parts are below 2^-116.  A difference beyond 1.0 is decided without its
\* square, which the integers of the checker cannot hold.
FlatEnough(dx, dy) ==
  /\ dx.c <= SCALE
  /\ 0 - dx.c <= SCALE
  /\ dy.c <= SCALE
  /\ 0 - dy.c <= SCALE
  /\ dx.c * dx.c + dy.c * dy.c <= (SCALE * SCALE) \div PRECISION_INV

\* Point::new
Point(x, y) == [x |-> x, y |-> y]

\* Point::midpoint
midpoint(p, q) == Point(FHalf(FAdd(p.x, q.x)), FHalf(FAdd(p.y, q.y)))

\* Ring::close that never appends the first point.
ring_close_never(pts) == pts

\* Ring::close: the first point is appended unless the last point is within
\* f64::EPSILON of it in both coordinates.
ring_close(pts) ==
  IF pts = <<>> THEN pts
  ELSE LET first == pts[1]
           last == pts[Len(pts)]
       IN  IF \/ AbsGtEpsilon(FSub(first.x, last.x))
              \/ AbsGtEpsilon(FSub(first.y, last.y))
           THEN Append(pts, first)
           ELSE pts

RECURSIVE add_quadratic_bezier(_, _, _, _)
\* Ring::add_quadratic_bezier: pts with the flattened curve appended.
add_quadratic_bezier(pts, start, ctrl, end) ==
  LET mid_1 == midpoint(start, ctrl)
      mid_2 == midpoint(ctrl, end)
      mid == midpoint(mid_1, mid_2)
      dx == FSub(FAdd(start.x, end.x), FDouble(ctrl.x))
      dy == FSub(FAdd(start.y, end.y), FDouble(ctrl.y))
  IN  IF FlatEnough(dx, dy)
      THEN Append(pts, end)
      ELSE add_quadratic_bezier(add_quadratic_bezier(pts, start, mid_1, mid),
                                mid, mid_2, end)

RECURSIVE add_cubic_bezier(_, _, _, _, _)
\* Ring::add_cubic_bezier: pts with the flattened curve appended.
add_cubic_bezier(pts, start, c1, c2, end) ==
  LET p01 == midpoint(start, c1)
      p12 == midpoint(c1, c2)
      p23 == midpoint(c2, end)
      p012 == midpoint(p01, p12)
      p123 == midpoint(p12, p23)
      mid == midpoint(p012, p123)
      dx == FSub(FAdd(c2.x, c1.x), FAdd(start.x, end.x))
      dy == FSub(FAdd(c2.y, c1.y), FAdd(start.y, end.y))
  IN  IF FlatEnough(dx, dy)
      THEN Append(pts, end)
      ELSE add_cubic_bezier(add_cubic_bezier(pts, start, p01, p012, mid),
                            mid, p123, p23, end)

\* RingBuilder::save_ring: the builder's [ring, rings] afterwards.
save_ring(r, rs) ==
  IF Len(r) < 3
  THEN [ring |-> <<>>, rings |-> rs]
  ELSE LET c == ring_close(r)
       IN  IF Len(c) < 4
           THEN [ring |-> <<>>, rings |-> rs]
           ELSE [ring |-> <<>>, rings |-> Append(rs, c)]

\* The f32 values the callbacks are called with: 0.0 and 2^-60, which differ
\* by less than f64::EPSILON, and 1.0, 1.125, 1.25 and 1.5.
Zero == Num(0, 0)

Tiny == Num(0, 1024)

One == Num(SCALE, 0)

FiveFourths == Num(SCALE + SCALE \div 4, 0)

PointChoices == { Point(Zero, Zero), Point(Tiny, Zero), Point(One, One) }

\* A control point that makes the curves below bend by more than the
\* precision.
Ctrl == Point(Num(SCALE + SCALE \div 2, 0), Num(SCALE + SCALE \div 8, 0))

\* The arguments of quad_to.
QuadChoices == { <<Ctrl, Point(FiveFourths, One)>>, <<Ctrl, Point(Tiny, Zero)>> }

\* The arguments of curve_to: a curve that is subdivided and one that is
\* flat from (1.0, 1.0).
CurveChoices ==
  { <<Ctrl, Ctrl, Point(FiveFourths, One)>>,
    <<Point(One, One), Point(One, One), Point(One, One)>> }

RInit ==
  /\ BlocksIdle
  /\ ManagerIdle
  /\ RunIdle
  /\ TarIdle
  /\ FnIdle
  /\ ring = <<>>
  /\ rings = <<>>
  /\ callback = [name |-> "none", n |-> 0, args |-> <<>>]

\* The builder has not been consumed and may be called once more.
RLive ==
  /\ callback.n < MaxCallbacks
  /\ callback.name # "into_rings"

RRest == <<fnVars, tarVars, managerVars, blockVars, runVars, workerVars, writerVars>>

\* OutlineBuilder::move_to(x, y)
move_to ==
  /\ RLive
  /\ \E p \in PointChoices :
       LET saved == save_ring(ring, rings)
       IN  /\ ring' = Append(saved.ring, p)
           /\ rings' = saved.rings
           /\ callback' = [name |-> "move_to", n |-> callback.n + 1, args |-> <<p>>]
  /\ UNCHANGED RRest

\* OutlineBuilder::line_to(x, y)
line_to ==
  /\ RLive
  /\ \E p \in PointChoices :
       /\ ring' = Append(ring, p)
       /\ callback' = [name |-> "line_to", n |-> callback.n + 1, args |-> <<p>>]
  /\ UNCHANGED <<rings, RRest>>

\* OutlineBuilder::quad_to(x1, y1, x, y)
quad_to ==
  /\ RLive
  /\ \E q \in QuadChoices :
       /\ ring' = IF ring = <<>> THEN ring
                  ELSE add_quadratic_bezier(ring, ring[Len(ring)], q[1], q[2])
       /\ callback' = [name |-> "quad_to", n |-> callback.n + 1, args |-> q]
  /\ UNCHANGED <<rings, RRest>>

\* The mutation: on an empty ring the curve is drawn from the origin.
curve_to_from_origin ==
  /\ RLive
  /\ \E q \in CurveChoices :
       /\ ring' = add_cubic_bezier(ring,
                                   IF ring = <<>> THEN Point(Zero, Zero) ELSE ring[Len(ring)],
                                   q[1], q[2], q[3])
       /\ callback' = [name |-> "curve_to", n |-> callback.n + 1, args |-> q]
  /\ UNCHANGED <<rings, RRest>>

\* OutlineBuilder::curve_to(x1, y1, x2, y2, x, y)
curve_to ==
  /\ RLive
  /\ \E q \in CurveChoices :
       /\ ring' = IF ring = <<>> THEN ring
                  ELSE add_cubic_bezier(ring, ring[Len(ring)], q[1], q[2], q[3])
       /\ callback' = [name |-> "curve_to", n |-> callback.n + 1, args |-> q]
  /\ UNCHANGED <<rings, RRest>>

\* OutlineBuilder::close
close ==
  /\ RLive
  /\ LET saved == save_ring(ring, rings)
     IN  /\ ring' = saved.ring
         /\ rings' = saved.rings
  /\ callback' = [name |-> "close", n |-> callback.n + 1, args |-> <<>>]
  /\ UNCHANGED RRest

\* RingBuilder::into_rings: rings is the value returned.
into_rings ==
  /\ RLive
  /\ LET saved == save_ring(ring, rings)
     IN  /\ ring' = saved.ring
         /\ rings' = saved.rings
  /\ callback' = [name |-> "into_rings", n |-> callback.n + 1, args |-> <<>>]
  /\ UNCHANGED RRest

RNext ==
  \/ move_to
  \/ line_to
  \/ quad_to
  \/ curve_to
  \/ close
  \/ into_rings

SpecRing == RInit /\ [][RNext]_vars

\* The first and the last point of a ring.
FirstPoint(r) == r[1]

LastPoint(r) == r[Len(r)]

\* C14, as stated: every finalized ring, before and after into_rings, has at
\* least 4 points and its last point equals its first point.
C14_RingsClosedExactly ==
  \A i \in 1..Len(rings) :
    /\ Len(rings[i]) >= 4
    /\ LastPoint(rings[i]) = FirstPoint(rings[i])

\* C14, amended: every finalized ring, before and after into_rings, has at
\* least 4 points and its last point is within f64::EPSILON of its first
\* point in both coordinates.
C14_RingsClosedWithinEpsilon ==
  \A i \in 1..Len(rings) :
    /\ Len(rings[i]) >= 4
    /\ ~AbsGtEpsilon(FSub(FirstPoint(rings[i]).x, LastPoint(rings[i]).x))
    /\ ~AbsGtEpsilon(FSub(FirstPoint(rings[i]).y, LastPoint(rings[i]).y))

\* into_rings has returned two rings: one that close ended with a copy of
\* its first point, and a flattened curve of more than 4 points whose own
\* last point was within f64::EPSILON of its first point.
C14_Witness ==
  /\ callback.name = "into_rings"
  /\ \E i \in 1..Len(rings) : LastPoint(rings[i]) = FirstPoint(rings[i])
  /\ \E i \in 1..Len(rings) :
       /\ Len(rings[i]) > 4
       /\ LastPoint(rings[i]) # FirstPoint(rings[i])

\* The values the points of a ring take.
PointValues(r) == { r[k] : k \in 1..Len(r) }

\* C15: no ring whose points take fewer than 3 distinct values is among the
\* finalized rings; a contour of fewer than 3 distinct points is discarded
\* when it is finalized.
C15_NoRingUnderThreeDistinct ==
  \A i \in 1..Len(rings) : Cardinality(PointValues(rings[i])) >= 3

\* A quad_to or curve_to callback is made in this step.
CurveCallback == callback' # callback /\ callback'.name \in {"quad_to", "curve_to"}

\* C26: quad_to and curve_to on an empty current ring change neither the
\* current ring nor the finalized rings; on a non-empty ring they keep the
\* points of the current ring and append at least one, the last being the
\* end point of the curve, and leave the finalized rings as they are.
C26_CurveFrame ==
  [][CurveCallback =>
       /\ rings' = rings
       /\ ring = <<>> => ring' = <<>>
       /\ ring # <<>> =>
            /\ Len(ring') > Len(ring)
            /\ SubSeq(ring', 1, Len(ring)) = ring
            /\ ring'[Len(ring')] = callback.args[Len(callback.args)]']_vars

\* curve_to has appended several points to the current ring of a builder
\* that holds a finalized ring.
C26_Witness ==
  /\ callback.name = "curve_to"
  /\ rings # <<>>
  /\ Len(ring) > 2
  /\ ring[Len(ring)] = callback.args[3]

\* quad_to has been called on an empty current ring.
C26_WitnessEmpty ==
  /\ callback.name = "quad_to"
  /\ ring = <<>>

(***************************************************************************)
(* Rendering one glyph.  A face is [units_per_em, glyphs]; glyphs maps the *)
(* codepoints that have a glyph index to [outline, advance], the outline   *)
(* being the callbacks outline_glyph makes, in font units, and the advance *)
(* glyph_hor_advance.  An Option is [some] or [some, v].                   *)
(***************************************************************************)
\* render/mod.rs:6
BUFFER == 3

\* render_glyph.rs:14 and :22: the size glyphs are scaled to.
EM_SIZE == 24

None == [some |-> FALSE]

Some(v) == [some |-> TRUE, v |-> v]

\* a <= b in f64
FLe(a, b) == a.c < b.c \/ (a.c = b.c /\ a.t <= b.t)

\* f64::INFINITY and f64::NEG_INFINITY, beyond every coordinate used.
INFINITY == Num(1073741823, 0)

NEG_INFINITY == Num(0 - 1073741823, 0)

\* a.floor() as i32
Floor(a) == IF a.c # 0 THEN a.c \div SCALE ELSE IF a.t < 0 THEN 0 - 1 ELSE 0

\* a.ceil() as i32
Ceil(a) == IF a.c # 0 THEN 0 - ((0 - a.c) \div SCALE) ELSE IF a.t > 0 THEN 1 ELSE 0

\* a * scale in f64, scale being 24.0 / units_per_em; the units_per_em used
\* are powers of two, for which the quotient and the products are exact.
FScale(a, units_per_em) ==
  Num((a.c * EM_SIZE) \div units_per_em, (a.t * EM_SIZE) \div units_per_em)

\* (advance as f64 * scale).round() as u32, halves rounded away from zero.
ScaledAdvance(advance, units_per_em) ==
  (2 * EM_SIZE * advance + units_per_em) \div (2 * units_per_em)

\* One callback of outline_glyph on the builder [ring, rings].
BuilderCall(b, call) ==
  CASE call.op = "move_to" ->
         LET saved == save_ring(b.ring, b.rings)
         IN  [ring |-> Append(saved.ring, call.args[1]), rings |-> saved.rings]
    [] call.op = "line_to" ->
         [b EXCEPT !.ring = Append(b.ring, call.args[1])]
    [] call.op = "quad_to" ->
         IF b.ring = <<>> THEN b
         ELSE [b EXCEPT !.ring =
                 add_quadratic_bezier(b.ring, b.ring[Len(b.ring)],
                                      call.args[1], call.args[2])]
    [] call.op = "curve_to" ->
         IF b.ring = <<>> THEN b
         ELSE [b EXCEPT !.ring =
                 add_cubic_bezier(b.ring, b.ring[Len(b.ring)],
                                  call.args[1], call.args[2], call.args[3])]
    [] call.op = "close" -> save_ring(b.ring, b.rings)

RECURSIVE BuilderCalls(_, _)
BuilderCalls(b, outline) ==
  IF outline = <<>> THEN b
  ELSE BuilderCalls(BuilderCall(b, Head(outline)), Tail(outline))

\* render_glyph.rs:10-12: RingBuilder::default, outline_glyph, into_rings.
outline_rings(outline) ==
  LET b == BuilderCalls([ring |-> <<>>, rings |-> <<>>], outline)
  IN  save_ring(b.ring, b.rings).rings

\* Rings::scale
rings_scale(rs, units_per_em) ==
  [i \in 1..Len(rs) |->
     [k \in 1..Len(rs[i]) |->
        Point(FScale(rs[i][k].x, units_per_em), FScale(rs[i][k].y, units_per_em))]]

\* The least and the greatest of a set of f64 values.
FMin(S) == CHOOSE a \in S : \A b \in S : FLe(a, b)

FMax(S) == CHOOSE a \in S : \A b \in S : FLe(b, a)

\* The points of all rings.
RingsPoints(rs) == UNION { { rs[i][k] : k \in 1..Len(rs[i]) } : i \in 1..Len(rs) }

\* Rings::get_bbox: BBox::new widened by every point of every ring.
get_bbox(rs) ==
  LET xs == { q.x : q \in RingsPoints(rs) }
      ys == { q.y : q \in RingsPoints(rs) }
  IN  [min |-> Point(FMin(xs \cup {INFINITY}), FMin(ys \cup {INFINITY})),
       max |-> Point(FMax(xs \cup {NEG_INFINITY}), FMax(ys \cup {NEG_INFINITY}))]

\* BBox::is_empty
bbox_is_empty(bbox) == FLe(bbox.max.x, bbox.min.x) \/ FLe(bbox.max.y, bbox.min.y)

\* RendererTrait::prepare: the RenderResult without a bitmap, or None.
prepare(rs) ==
  LET bbox == get_bbox(rs)
      x0 == Floor(bbox.min.x) - BUFFER
      y0 == Floor(bbox.min.y) - BUFFER
      x1 == Ceil(bbox.max.x) + BUFFER
      y1 == Ceil(bbox.max.y) + BUFFER
  IN  IF bbox_is_empty(bbox) THEN None
      ELSE Some([x0 |-> x0, y1 |-> y1, x1 |-> x1, y0 |-> y0,
                 width |-> x1 - x0, height |-> y1 - y0, bitmap |-> None])

\* The byte RendererPrecise computes for a pixel from its signed distance to
\* the outline; the distance is not computed here.
SDF == "sdf"

\* RendererPrecise::render: every index (height - 1 - y) * width + x of the
\* bitmap of width * height bytes is written.
render_precise(rs) ==
  LET prepared == prepare(rs)
  IN  IF ~prepared.some THEN None
      ELSE LET glyph == prepared.v
               width == glyph.width
               height == glyph.height
               written == { (height - 1 - y) * width + x :
                              x \in 0..(width - 1), y \in 0..(height - 1) }
           IN  Some([glyph EXCEPT !.bitmap =
                       Some([i \in 1..(width * height) |->
                               IF (i - 1) \in written THEN SDF ELSE 0])])

\* RendererDummy::render: a bitmap of width * height zeros.
render_dummy(rs) ==
  LET prepared == prepare(rs)
  IN  IF ~prepared.some THEN None
      ELSE LET glyph == prepared.v
           IN  Some([glyph EXCEPT !.bitmap =
                       Some([i \in 1..(glyph.width * glyph.height) |-> 0])])

\* renderer.render(rings)
renderer_render(renderer, rs) ==
  IF renderer = "precise" THEN render_precise(rs) ELSE render_dummy(rs)

\* RenderResult::into_pbf_glyph that removes the buffer once.
into_pbf_glyph_one_buffer(result, id, advance) ==
  [id |-> id, bitmap |-> result.bitmap,
   width |-> result.width - BUFFER, height |-> result.height - BUFFER,
   left |-> result.x0 + BUFFER, top |-> result.y1 - BUFFER, advance |-> advance]

\* RenderResult::into_pbf_glyph
into_pbf_glyph(result, id, advance) ==
  [id |-> id, bitmap |-> result.bitmap,
   width |-> result.width - 2 * BUFFER, height |-> result.height - 2 * BUFFER,
   left |-> result.x0 + BUFFER, top |-> result.y1 - BUFFER, advance |-> advance]

\* PbfGlyph::empty that drops the advance.
PbfGlyph_empty_no_advance(id, advance) ==
  [id |-> id, bitmap |-> None, width |-> 0, height |-> 0, left |-> 0, top |-> 0,
   advance |-> 0]

\* PbfGlyph::empty
PbfGlyph_empty(id, advance) ==
  [id |-> id, bitmap |-> None, width |-> 0, height |-> 0, left |-> 0, top |-> 0,
   advance |-> advance]

\* render_glyph(face, index, renderer)
render_glyph(face, index, renderer) ==
  IF index \notin DOMAIN face.glyphs THEN None
  ELSE LET scaled == rings_scale(outline_rings(face.glyphs[index].outline),
                                 face.units_per_em)
           advance == ScaledAdvance(face.glyphs[index].advance, face.units_per_em)
           sdf_option == renderer_render(renderer, scaled)
       IN  Some(IF sdf_option.some
                THEN into_pbf_glyph([sdf_option.v EXCEPT !.y1 = @ - EM_SIZE],
                                    index, advance)
                ELSE PbfGlyph_empty(index, advance))

(***************************************************************************)
(* The render_glyph specification: render_glyph is applied to a face, a    *)
(* codepoint and a renderer.                                               *)
(***************************************************************************)
\* Face::units_per_em
UnitsChoices == {16, 32}

\* A point in whole font units.
FontPoint(x, y) == Point(Num(x * SCALE, 0), Num(y * SCALE, 0))

Call(op, args) == [op |-> op, args |-> args]

\* A glyph without contours, as of a space.
NoContour == <<>>

\* A triangle.
Triangle ==
  << Call("move_to", <<FontPoint(0, 0)>>), Call("line_to", <<FontPoint(8, 0)>>),
     Call("line_to", <<FontPoint(0, 8)>>), Call("close", <<>>) >>

\* A contour of two points, which save_ring drops.
TwoPoints ==
  << Call("move_to", <<FontPoint(0, 0)>>), Call("line_to", <<FontPoint(8, 8)>>),
     Call("close", <<>>) >>

\* A contour on one vertical line: a ring of 4 points without width.
Bar ==
  << Call("move_to", <<FontPoint(2, 0)>>), Call("line_to", <<FontPoint(2, 8)>>),
     Call("line_to", <<FontPoint(2, 4)>>), Call("close", <<>>) >>

\* A quadrilateral around the origin whose scaled corners are not whole.
Skewed ==
  << Call("move_to", <<FontPoint(0 - 3, 0 - 2)>>), Call("line_to", <<FontPoint(5, 0 - 1)>>),
     Call("line_to", <<FontPoint(5, 7)>>), Call("line_to", <<FontPoint(0 - 1, 3)>>),
     Call("close", <<>>) >>

\* An arch: a quadratic curve closed by a line, and a second contour.
Arch ==
  << Call("move_to", <<FontPoint(0, 0)>>),
     Call("quad_to", <<FontPoint(4, 8), FontPoint(8, 0)>>),
     Call("close", <<>>),
     Call("move_to", <<FontPoint(10, 0)>>), Call("line_to", <<FontPoint(12, 0)>>),
     Call("line_to", <<FontPoint(12, 1)>>) >>

OutlineChoices == {NoContour, Triangle, TwoPoints, Bar, Skewed, Arch}

\* Face::glyph_hor_advance
AdvanceChoices == {0, 9}

\* The codepoints render_glyph is called with.
IndexChoices == {65, 300}

RendererChoices == {"precise", "dummy"}

\* The faces: the codepoint has a glyph index or has none.
FaceChoices(index) ==
  { [units_per_em |-> u, glyphs |-> <<>>] : u \in UnitsChoices }
  \cup
  { [units_per_em |-> u, glyphs |-> (index :> [outline |-> o, advance |-> a])] :
      u \in UnitsChoices, o \in OutlineChoices, a \in AdvanceChoices }

GInit ==
  /\ BlocksIdle
  /\ ManagerIdle
  /\ RunIdle
  /\ TarIdle
  /\ RingIdle
  /\ \E index \in IndexChoices :
       fnIn \in { [face |-> f, index |-> index, renderer |-> r] :
                    f \in FaceChoices(index), r \in RendererChoices }
  /\ fnOut = <<>>
  /\ fnDone = FALSE

\* render_glyph(face, index, renderer)
GRenderGlyph ==
  /\ ~fnDone
  /\ fnOut' = render_glyph(fnIn.face, fnIn.index, fnIn.renderer)
  /\ fnDone' = TRUE
  /\ UNCHANGED ringVars
  /\ UNCHANGED <<fnIn, tarVars, managerVars, blockVars, runVars, workerVars, writerVars>>

GNext == GRenderGlyph

SpecRender == GInit /\ [][GNext]_vars

\* render_glyph has returned a glyph.
Emitted == fnDone /\ fnOut.some

\* C16: every glyph emitted with a bitmap, by either renderer, has a bitmap
\* of (width + 6) * (height + 6) bytes, width and height being those of the
\* glyph message.
C16_BitmapLength ==
  (Emitted /\ fnOut.v.bitmap.some) =>
    Len(fnOut.v.bitmap.v) = (fnOut.v.width + 6) * (fnOut.v.height + 6)

\* The precise renderer has emitted the triangle at 16 units per em: 12 by
\* 12 pixels and a bitmap of 18 * 18 bytes.
C16_Witness ==
  /\ Emitted
  /\ fnIn.renderer = "precise"
  /\ fnOut.v.bitmap.some
  /\ fnOut.v.width = 12
  /\ fnOut.v.height = 12
  /\ Len(fnOut.v.bitmap.v) = 324

\* The glyph the codepoint of the call has in the face.
GlyphIn == fnIn.face.glyphs[fnIn.index]

\* The points of the scaled rings of the outline.
ScaledPoints ==
  RingsPoints(rings_scale(outline_rings(GlyphIn.outline), fnIn.face.units_per_em))

\* The scaled outline has no rings or a bounding box without width or
\* without height.
NoExtent ==
  \/ ScaledPoints = {}
  \/ \A q1 \in ScaledPoints, q2 \in ScaledPoints : q1.x = q2.x
  \/ \A q1 \in ScaledPoints, q2 \in ScaledPoints : q1.y = q2.y

\* C17: every glyph emitted without a bitmap has width, height, left and top
\* 0 and the advance computed for it; it is the glyph emitted whenever the
\* codepoint has a glyph index and its scaled outline has no rings or an
\* empty bounding box.
C17_EmptyGlyph ==
  /\ (Emitted /\ ~fnOut.v.bitmap.some) =>
       /\ fnOut.v.width = 0
       /\ fnOut.v.height = 0
       /\ fnOut.v.left = 0
       /\ fnOut.v.top = 0
       /\ fnOut.v.advance = ScaledAdvance(GlyphIn.advance, fnIn.face.units_per_em)
  /\ (fnDone /\ fnIn.index \in DOMAIN fnIn.face.glyphs /\ NoExtent) =>
       /\ fnOut.some
       /\ ~fnOut.v.bitmap.some
       /\ fnOut.v.id = fnIn.index

\* The glyph emitted for a ring of 4 points on one vertical line, with the
\* advance 9 at 16 units per em: no bitmap and the advance 14.
C17_Witness ==
  /\ Emitted
  /\ GlyphIn.outline = Bar
  /\ outline_rings(Bar) # <<>>
  /\ ~fnOut.v.bitmap.some
  /\ fnOut.v.advance = 14

(***************************************************************************)
(* Rendering a block.  GlyphBlock::render walks the glyphs HashMap of the  *)
(* block; the order of the walk is that of the HashMap, which is fixed for *)
(* one map and not determined by its keys.                                 *)
(***************************************************************************)
\* A small triangle.
Wedge ==
  << Call("move_to", <<FontPoint(0, 0)>>), Call("line_to", <<FontPoint(2, 0)>>),
     Call("line_to", <<FontPoint(0, 2)>>), Call("close", <<>>) >>

\* The outline and the advance the faces of the model have for a codepoint.
GlyphOf(cp) ==
  [outline |-> IF cp % 2 = 1 THEN Wedge ELSE NoContour, advance |-> 9]

\* FontFileEntry.face of a parsed file: a glyph for each codepoint of its
\* cmap, at 16 units per em.
FaceOf(path) ==
  [units_per_em |-> 16,
   glyphs |-> [cp \in { Meta(path).codepoints[k] : k \in 1..Len(Meta(path).codepoints) }
                 |-> GlyphOf(cp)]]

\* The name render is called with.
FONT_NAME == <<"T">>

\* GlyphBlock::render that gives each glyph the id of its char index.
GlyphBlock_render_char_index(block, order, files, font_name, renderer) ==
  LET results ==
        [k \in 1..Len(order) |->
           render_glyph(FaceOf(files[block.glyphs[order[k]]]),
                        block.start_index + order[k], renderer)]
      pushed == SelectSeq(results, LAMBDA r : r.some)
  IN  [name |-> font_name, range |-> range(block),
       glyphs |-> [k \in 1..Len(pushed) |->
                     [pushed[k].v EXCEPT !.id = @ - block.start_index]]]

\* GlyphBlock::render: the Fontstack of the message, order being the order
\* in which the HashMap yields the char indexes.
GlyphBlock_render(block, order, files, font_name, renderer) ==
  LET results ==
        [k \in 1..Len(order) |->
           render_glyph(FaceOf(files[block.glyphs[order[k]]]),
                        block.start_index + order[k], renderer)]
      pushed == SelectSeq(results, LAMBDA r : r.some)
  IN  [name |-> font_name, range |-> range(block),
       glyphs |-> [k \in 1..Len(pushed) |-> pushed[k].v]]

\* block.render(font_name, renderer) on a block get_blocks returned.
BRender ==
  /\ bcalled
  /\ \E block \in bblocks, renderer \in RendererChoices :
       rendered' =
         [block |-> block,
          stack |-> GlyphBlock_render(block, iterOrder[block.start_index], bfiles,
                                      FONT_NAME, renderer)]
  /\ UNCHANGED <<ringVars, fnVars, tarVars, iterOrder>>
  /\ UNCHANGED <<bfiles, bblocks, bcalled, managerVars, runVars, workerVars, writerVars>>

BNext == BAddFile \/ BGetBlocks \/ BRender

SpecBlocks == BInit /\ [][BNext]_vars

\* A block has been rendered since the last get_blocks.
HasRendered == DOMAIN rendered # {}

\* The slots [start_index, char_index] of the blocks returned that stand for
\* the codepoint cp.
SlotsOf(cp) ==
  UNION { { <<b.start_index, c>> : c \in { d \in DOMAIN b.glyphs : b.start_index + d = cp } } :
            b \in bblocks }

\* C18: the start_index of every block get_blocks returns is a multiple of
\* 256; every glyph GlyphBlock::render emits has the id start_index +
\* char_index of a filled slot of the block, between start_index and
\* start_index + 255; and every covered codepoint cp has exactly one slot,
\* in the block of cp div 256 at the index cp mod 256.
C18_BlockIdsAndSlots ==
  /\ \A b \in bblocks : b.start_index % 256 = 0
  /\ HasRendered =>
       \A k \in 1..Len(rendered.stack.glyphs) :
         LET id == rendered.stack.glyphs[k].id
             start == rendered.block.start_index
         IN  /\ \E c \in DOMAIN rendered.block.glyphs : id = start + c
             /\ start <= id
             /\ id <= start + 255
  /\ bcalled =>
       \A cp \in Covered(bfiles) :
         SlotsOf(cp) = { <<(cp \div 256) * 256, cp % 256>> }

\* The block 256..511 of a wrapper of two files has been rendered, and the
\* glyph of codepoint 300 emitted.
C18_Witness ==
  /\ HasRendered
  /\ Len(bfiles) >= 2
  /\ rendered.block.start_index = 256
  /\ \E k \in 1..Len(rendered.stack.glyphs) : rendered.stack.glyphs[k].id = 300

\* C19: the glyphs of every emitted fontstack message are in ascending
\* order of their codepoints.
C19_GlyphsAscending ==
  HasRendered =>
    \A k, l \in 1..Len(rendered.stack.glyphs) :
      k < l => rendered.stack.glyphs[k].id < rendered.stack.glyphs[l].id

(***************************************************************************)
(* Font names.  parse_font_name(family, ps_name) gives the family without  *)
(* its width, weight and script tokens, the style, the weight and the      *)
(* width.                                                                  *)
(***************************************************************************)
\* The words of PartChoices in a family string, at most.
MaxParts == 3

\* str::contains(sub)
contains(s, sub) ==
  \E i \in 1..(Len(s) - Len(sub) + 1) : SubSeq(s, i, i + Len(sub) - 1) = sub

\* ps_name.rfind('-'): the last position of a dash, 0 for None.
rfind_dash(s) ==
  IF \E i \in 1..Len(s) : s[i] = "-"
  THEN CHOOSE i \in 1..Len(s) : s[i] = "-" /\ \A j \in (i + 1)..Len(s) : s[j] # "-"
  ELSE 0

RECURSIVE SplitTokens(_, _)
SplitTokens(s, cur) ==
  IF s = <<>> THEN IF cur = <<>> THEN <<>> ELSE <<cur>>
  ELSE IF Head(s) = " "
       THEN IF cur = <<>> THEN SplitTokens(Tail(s), <<>>)
            ELSE <<cur>> \o SplitTokens(Tail(s), <<>>)
       ELSE SplitTokens(Tail(s), Append(cur, Head(s)))

\* str::split_whitespace, collected
split_whitespace(s) == SplitTokens(s, <<>>)

RECURSIVE JoinSpace(_)
\* join(" ")
JoinSpace(parts) ==
  IF parts = <<>> THEN <<>>
  ELSE IF Len(parts) = 1 THEN parts[1]
  ELSE parts[1] \o <<" ">> \o JoinSpace(Tail(parts))

\* find_weight
find_weight(s) ==
  IF contains(s, <<"h", "a", "i", "r", "l", "i", "n", "e">>) \/ contains(s, <<"t", "h", "i", "n">>) THEN 100
  ELSE IF contains(s, <<"e", "x", "t", "r", "a", "l", "i", "g", "h", "t">>) \/ contains(s, <<"u", "l", "t", "r", "a", "l", "i", "g", "h", "t">>) THEN 200
  ELSE IF contains(s, <<"l", "i", "g", "h", "t">>) THEN 300
  ELSE IF contains(s, <<"r", "e", "g", "u", "l", "a", "r">>) \/ contains(s, <<"n", "o", "r", "m", "a", "l">>) \/ contains(s, <<"b", "o", "o", "k">>) THEN 400
  ELSE IF contains(s, <<"m", "e", "d", "i", "u", "m">>) THEN 500
  ELSE IF contains(s, <<"d", "e", "m", "i", "b", "o", "l", "d">>) \/ contains(s, <<"s", "e", "m", "i", "b", "o", "l", "d">>) THEN 600
  ELSE IF contains(s, <<"b", "o", "l", "d">>)
       THEN IF contains(s, <<"e", "x", "t", "r", "a">>) \/ contains(s, <<"u", "l", "t", "r", "a">>) THEN 800 ELSE 700
  ELSE IF contains(s, <<"b", "l", "a", "c", "k">>) \/ contains(s, <<"h", "e", "a", "v", "y">>) THEN 900
  ELSE 400

EXTRA == <<"e", "x", "t", "r", "a">>

CONDENSED == <<"c", "o", "n", "d", "e", "n", "s", "e", "d">>

SEMICONDENSED == <<"s", "e", "m", "i", "c", "o", "n", "d", "e", "n", "s", "e", "d">>

EXTRA_CONDENSED == <<"e", "x", "t", "r", "a", " ", "c", "o", "n", "d", "e", "n", "s", "e", "d">>

SEMI_HYPHEN_CONDENSED == <<"s", "e", "m", "i", "-", "c", "o", "n", "d", "e", "n", "s", "e", "d">>

EXTRA_HYPHEN_CONDENSED == <<"e", "x", "t", "r", "a", "-", "c", "o", "n", "d", "e", "n", "s", "e", "d">>

\* parse_font_name.rs:66-87: the script tokens dropped from the family.
ScriptTokens ==
  {
    <<"a", "r", "a", "b", "i", "c">>, <<"a", "r", "m", "e", "n", "i", "a", "n">>,
    <<"b", "a", "l", "i", "n", "e", "s", "e">>, <<"b", "e", "n", "g", "a", "l", "i">>,
    <<"d", "e", "v", "a", "n", "a", "g", "a", "r", "i">>,
    <<"e", "t", "h", "i", "o", "p", "i", "c">>, <<"g", "e", "o", "r", "g", "i", "a", "n">>,
    <<"g", "u", "j", "a", "r", "a", "t", "i">>, <<"g", "u", "r", "m", "u", "k", "h", "i">>,
    <<"h", "e", "b", "r", "e", "w">>, <<"j", "p">>, <<"j", "a", "v", "a", "n", "e", "s", "e">>,
    <<"k", "r">>, <<"k", "a", "n", "n", "a", "d", "a">>, <<"k", "h", "m", "e", "r">>,
    <<"l", "a", "o">>, <<"m", "y", "a", "n", "m", "a", "r">>, <<"o", "r", "i", "y", "a">>,
    <<"s", "c">>, <<"s", "i", "n", "h", "a", "l", "a">>, <<"t", "a", "m", "i", "l">>,
    <<"t", "h", "a", "i">>
  }

\* The single-token widths with "semi-condensed" for the token semicondensed.
single_width_hyphenated(t) ==
  IF t = SEMICONDENSED THEN SEMI_HYPHEN_CONDENSED
  ELSE IF t \in {CONDENSED, <<"c", "a", "p", "t", "i", "o", "n">>, <<"n", "a", "r", "r", "o", "w">>} THEN t
  ELSE <<>>

\* parse_font_name.rs:45-64: the width a single lower-cased token stands
\* for, <<>> when it stands for none.
single_width(t) ==
  IF t \in {SEMICONDENSED, CONDENSED, <<"c", "a", "p", "t", "i", "o", "n">>, <<"n", "a", "r", "r", "o", "w">>} THEN t ELSE <<>>

RECURSIVE ScanTokens(_, _, _, _)
\* The while loop of parse_font_name from token i on; acc is [width, weight,
\* final_family_tokens].
ScanTokens(tokens, i, acc, ps_weight) ==
  IF i > Len(tokens) THEN acc
  ELSE LET t == to_lowercase(tokens[i])
           maybe_w == find_weight(t)
       IN  IF /\ i + 1 <= Len(tokens)
              /\ t = EXTRA
              /\ to_lowercase(tokens[i + 1]) = CONDENSED
           THEN ScanTokens(tokens, i + 2, [acc EXCEPT !.width = EXTRA_CONDENSED], ps_weight)
           ELSE IF single_width(t) # <<>>
           THEN ScanTokens(tokens, i + 1, [acc EXCEPT !.width = single_width(t)], ps_weight)
           ELSE IF t \in ScriptTokens
           THEN ScanTokens(tokens, i + 1, acc, ps_weight)
           ELSE IF maybe_w # 400
           THEN ScanTokens(tokens, i + 1,
                           IF ps_weight = 400 THEN [acc EXCEPT !.weight = maybe_w] ELSE acc,
                           ps_weight)
           ELSE ScanTokens(tokens, i + 1,
                           [acc EXCEPT !.final_family_tokens = Append(@, tokens[i])],
                           ps_weight)

\* parse_font_name(family, ps_name): <<family, style, weight, width>>
parse_font_name(family, ps_name) ==
  LET pos == rfind_dash(ps_name)
      suffix == SubSeq(ps_name, pos + 1, Len(ps_name))
      lower_suffix == to_lowercase(suffix)
      style == IF contains(lower_suffix, ITALIC) THEN ITALIC ELSE NORMAL
      ps_weight == find_weight(lower_suffix)
      scanned == ScanTokens(split_whitespace(family), 1,
                            [width |-> NORMAL, weight |-> ps_weight,
                             final_family_tokens |-> <<>>],
                            ps_weight)
  IN  <<JoinSpace(scanned.final_family_tokens), style, scanned.weight, scanned.width>>

\* The words the family strings are made of.
PartChoices ==
  { <<"O", "p", "e", "n", " ", "S", "a", "n", "s">>,
    <<"S", "e", "m", "i", "C", "o", "n", "d", "e", "n", "s", "e", "d">>,
    <<"s", "e", "m", "i", "-", "c", "o", "n", "d", "e", "n", "s", "e", "d">>,
    <<"E", "x", "t", "r", "a">>,
    <<"C", "o", "n", "d", "e", "n", "s", "e", "d">>,
    <<"L", "i", "g", "h", "t">>,
    <<"B", "o", "l", "d">>,
    <<"R", "e", "g", "u", "l", "a", "r">> }

\* The PostScript names.
PsNameChoices ==
  { <<"O", "p", "e", "n", "S", "a", "n", "s", "S", "e", "m", "i", "C", "o", "n", "d", "e", "n", "s", "e", "d", "-", "L", "i", "g", "h", "t", "I", "t", "a", "l", "i", "c">>,
    <<"O", "p", "e", "n", "S", "a", "n", "s", "-", "R", "e", "g", "u", "l", "a", "r">> }

PInit ==
  /\ BlocksIdle
  /\ ManagerIdle
  /\ RunIdle
  /\ TarIdle
  /\ RingIdle
  /\ \E parts \in SeqsUpTo(PartChoices, MaxParts), ps_name \in PsNameChoices :
       fnIn = [family |-> JoinSpace(parts), ps_name |-> ps_name]
  /\ fnOut = <<>>
  /\ fnDone = FALSE

\* parse_font_name(family, ps_name)
PParseFontName ==
  /\ ~fnDone
  /\ fnOut' = parse_font_name(fnIn.family, fnIn.ps_name)
  /\ fnDone' = TRUE
  /\ UNCHANGED ringVars
  /\ UNCHANGED <<fnIn, tarVars, managerVars, blockVars, runVars, workerVars, writerVars>>

PNext == PParseFontName

SpecFontName == PInit /\ [][PNext]_vars

\* The tokens of a family string, lower-cased.
LowerTokens(tokens) == [i \in 1..Len(tokens) |-> to_lowercase(tokens[i])]

\* The token i of lower is `extra` and the next one is `condensed`.
PairStart(lower, i) ==
  /\ i + 1 <= Len(lower)
  /\ lower[i] = EXTRA
  /\ lower[i + 1] = CONDENSED

InPair(lower, i) == PairStart(lower, i) \/ (i > 1 /\ PairStart(lower, i - 1))

\* The token i is a width token of its own, semis being the spellings taken
\* for semi-condensed.
SingleWidth(lower, i, semis) == ~InPair(lower, i) /\ lower[i] \in semis \cup {CONDENSED}

\* The width named by the last width token, NORMAL without one.
WidthNamed(lower, semis, semiName, extraName) ==
  LET at == { i \in 1..Len(lower) : PairStart(lower, i) \/ SingleWidth(lower, i, semis) }
      last == CHOOSE i \in at : \A j \in at : j <= i
  IN  IF at = {} THEN NORMAL
      ELSE IF PairStart(lower, last) THEN extraName
      ELSE IF lower[last] \in semis THEN semiName
      ELSE CONDENSED

\* The family without its width tokens, and without the script and weight
\* tokens the function removes as well.
FamilyLeft(tokens, lower, semis) ==
  LET keep == [i \in 1..Len(tokens) |->
                 /\ ~InPair(lower, i)
                 /\ ~SingleWidth(lower, i, semis)
                 /\ lower[i] \notin ScriptTokens
                 /\ find_weight(lower[i]) = 400]
      kept == SelectSeq([i \in 1..Len(tokens) |-> <<i, tokens[i]>>],
                        LAMBDA e : keep[e[1]])
  IN  JoinSpace([k \in 1..Len(kept) |-> kept[k][2]])

\* The width and the family the call has to give when semis are the
\* spellings of semi-condensed, semiName its width and extraName the width of
\* the pair extra condensed.
WidthAndFamily(semis, semiName, extraName) ==
  LET tokens == split_whitespace(fnIn.family)
      lower == LowerTokens(tokens)
  IN  <<WidthNamed(lower, semis, semiName, extraName), FamilyLeft(tokens, lower, semis)>>

WeightKeywords ==
  { <<"h", "a", "i", "r", "l", "i", "n", "e">>,
    <<"t", "h", "i", "n">>,
    <<"e", "x", "t", "r", "a", "l", "i", "g", "h", "t">>,
    <<"u", "l", "t", "r", "a", "l", "i", "g", "h", "t">>,
    <<"l", "i", "g", "h", "t">>,
    <<"r", "e", "g", "u", "l", "a", "r">>,
    <<"n", "o", "r", "m", "a", "l">>,
    <<"b", "o", "o", "k">>,
    <<"m", "e", "d", "i", "u", "m">>,
    <<"d", "e", "m", "i", "b", "o", "l", "d">>,
    <<"s", "e", "m", "i", "b", "o", "l", "d">>,
    <<"b", "o", "l", "d">>,
    <<"b", "l", "a", "c", "k">>,
    <<"h", "e", "a", "v", "y">> }

\* The lower-cased token t matches the weight keyword table.
MatchesWeightTable(t) == \E k \in WeightKeywords : contains(t, k)

\* The weight derived from the PostScript suffix of the call.
PsWeight ==
  find_weight(to_lowercase(SubSeq(fnIn.ps_name, rfind_dash(fnIn.ps_name) + 1,
                                  Len(fnIn.ps_name))))

\* C21: every family token that matches the weight keyword table (regular,
\* normal and book included) is absent from the returned family, and the
\* weight of the last such token is the weight returned exactly when the
\* weight of the PostScript suffix is 400, which is returned otherwise.
C21_WeightTokensConsumed ==
  fnDone =>
    LET lower == LowerTokens(split_whitespace(fnIn.family))
        left == LowerTokens(split_whitespace(fnOut[1]))
        at == { i \in 1..Len(lower) : MatchesWeightTable(lower[i]) }
        last == CHOOSE i \in at : \A j \in at : j <= i
    IN  /\ \A i \in 1..Len(left) : ~MatchesWeightTable(left[i])
        /\ at # {} =>
              fnOut[3] = IF PsWeight = 400 THEN find_weight(lower[last]) ELSE PsWeight

(***************************************************************************)
(* Point in rings.  Rings::contains_point(pt) sums the winding numbers of  *)
(* the rings around pt.  The coordinates are f64 values that are small     *)
(* integers, on which the subtractions and products of cross_product are   *)
(* exact.                                                                  *)
(***************************************************************************)
\* The rings of a Rings value, at most.
MaxRings == 2

IntPoint(x, y) == [x |-> x, y |-> y]

\* cross_product(p0, p1, p2)
cross_product(p0, p1, p2) == (p1.x - p0.x) * (p2.y - p0.y) - (p2.x - p0.x) * (p1.y - p0.y)

RECURSIVE WindingLoop(_, _, _, _)
\* The loop of winding_number over ring.iter().skip(1): p2 is points[i], p1
\* the point before it.
WindingLoop(points, i, pt, winding) ==
  IF i > Len(points) THEN winding
  ELSE LET p1 == points[i - 1]
           p2 == points[i]
       IN  WindingLoop(points, i + 1, pt,
             IF p1.y <= pt.y
             THEN IF p2.y > pt.y /\ cross_product(p1, p2, pt) > 0
                  THEN winding + 1 ELSE winding
             ELSE IF p2.y <= pt.y /\ cross_product(p1, p2, pt) < 0
                  THEN winding - 1 ELSE winding)

\* The mutation: only the upward crossings are counted.
winding_number_upward_only(points, pt) ==
  Cardinality({i \in 2..Len(points) :
                 /\ points[i - 1].y <= pt.y
                 /\ points[i].y > pt.y
                 /\ cross_product(points[i - 1], points[i], pt) > 0})

\* Ring::winding_number
winding_number(points, pt) ==
  IF Len(points) < 2 THEN 0 ELSE WindingLoop(points, 2, pt, 0)

RECURSIVE WindingSum(_, _, _)
\* The loop of contains_point over self.rings.
WindingSum(rs, pt, winding) ==
  IF rs = <<>> THEN winding
  ELSE WindingSum(Tail(rs), pt, winding + winding_number(Head(rs), pt))

\* Rings::contains_point
contains_point(rs, pt) == WindingSum(rs, pt, 0) # 0

\* A closed rectangle ring, counter-clockwise or clockwise.
Rectangle(x0, y0, x1, y1, ccw) ==
  IF ccw
  THEN <<IntPoint(x0, y0), IntPoint(x1, y0), IntPoint(x1, y1), IntPoint(x0, y1),
         IntPoint(x0, y0)>>
  ELSE <<IntPoint(x0, y0), IntPoint(x0, y1), IntPoint(x1, y1), IntPoint(x1, y0),
         IntPoint(x0, y0)>>

OuterSquare(ccw) == Rectangle(0, 0, 6, 6, ccw)

InnerSquare(ccw) == Rectangle(2, 2, 4, 4, ccw)

\* A closed triangle with two slanted edges.
SlantedTriangle == <<IntPoint(0, 0), IntPoint(6, 0), IntPoint(3, 6), IntPoint(0, 0)>>

\* The rings given: an outer and an inner square in both orientations, a
\* triangle, and a ring of one point.
WindingRingChoices ==
  { OuterSquare(TRUE), OuterSquare(FALSE), InnerSquare(TRUE), InnerSquare(FALSE),
    SlantedTriangle, <<IntPoint(3, 3)>> }

\* The coordinates of the points tested: outside, on and inside the rings.
WindingCoordChoices == {-1, 0, 1, 2, 3, 5, 6, 7}

CPInit ==
  /\ BlocksIdle
  /\ ManagerIdle
  /\ RunIdle
  /\ TarIdle
  /\ RingIdle
  /\ \E rs \in SeqsUpTo(WindingRingChoices, MaxRings),
        x \in WindingCoordChoices, y \in WindingCoordChoices :
       fnIn = [rings |-> rs, pt |-> IntPoint(x, y)]
  /\ fnOut = <<>>
  /\ fnDone = FALSE

\* rings.contains_point(&pt)
CPContainsPoint ==
  /\ ~fnDone
  /\ fnOut' = contains_point(fnIn.rings, fnIn.pt)
  /\ fnDone' = TRUE
  /\ UNCHANGED ringVars
  /\ UNCHANGED <<fnIn, tarVars, managerVars, blockVars, runVars, workerVars, writerVars>>

CPNext == CPContainsPoint

SpecWinding == CPInit /\ [][CPNext]_vars

\* Twice the signed area of the triangle (p1, p2, pt): positive when pt is
\* strictly left of the edge from p1 to p2, negative when strictly right.
SignedArea2(p1, p2, pt) ==
  p1.x * (p2.y - pt.y) + p2.x * (pt.y - p1.y) + pt.x * (p1.y - p2.y)

\* The edges of a ring, as positions of their first points.
EdgesOf(points) == 1..(Len(points) - 1)

\* The edges of a ring that add 1 and those that subtract 1.
UpwardLeft(points, pt) ==
  {i \in EdgesOf(points) :
     /\ points[i].y <= pt.y
     /\ pt.y < points[i + 1].y
     /\ SignedArea2(points[i], points[i + 1], pt) > 0}

DownwardRight(points, pt) ==
  {i \in EdgesOf(points) :
     /\ points[i + 1].y <= pt.y
     /\ pt.y < points[i].y
     /\ SignedArea2(points[i], points[i + 1], pt) < 0}

RECURSIVE EdgeSum(_, _)
\* The sum over the rings of the edges that add 1 less those that subtract 1.
EdgeSum(rs, pt) ==
  IF rs = <<>> THEN 0
  ELSE Cardinality(UpwardLeft(Head(rs), pt)) - Cardinality(DownwardRight(Head(rs), pt))
       + EdgeSum(Tail(rs), pt)

\* pt is strictly inside the square from (lo, lo) to (hi, hi).
StrictlyInside(pt, lo, hi) == lo < pt.x /\ pt.x < hi /\ lo < pt.y /\ pt.y < hi

C27_WitnessEqual ==
  /\ fnDone
  /\ fnIn.rings = <<OuterSquare(TRUE), InnerSquare(TRUE)>>
  /\ fnIn.pt = IntPoint(3, 3)
  /\ fnOut = TRUE

(***************************************************************************)
(* Flatness of an emitted cubic piece.  Ring::add_cubic_bezier is applied  *)
(* to an empty ring with control points of whole-number coordinates; the   *)
(* points of the curve at t = 1/4 and t = 3/4 are multiples of 1/64, which *)
(* the midpoints of De Casteljau's construction give exactly.              *)
(***************************************************************************)
\* The coordinates of the control points.
CubicPoint(x, y) == Point(Num(x * SCALE, 0), Num(y * SCALE, 0))

CubicStartChoices == {CubicPoint(0, 0)}

CubicControlChoices == {CubicPoint(x, y) : x \in {-1, 0, 1}, y \in {-1, 0, 1}}

CubicEndChoices == {CubicPoint(0, 0), CubicPoint(1, 0), CubicPoint(1, 1)}

CubicInit ==
  /\ BlocksIdle
  /\ ManagerIdle
  /\ RunIdle
  /\ TarIdle
  /\ RingIdle
  /\ \E start \in CubicStartChoices, c1 \in CubicControlChoices,
        c2 \in CubicControlChoices, end \in CubicEndChoices :
       fnIn = [start |-> start, c1 |-> c1, c2 |-> c2, end |-> end]
  /\ fnOut = <<>>
  /\ fnDone = FALSE

\* ring.add_cubic_bezier(&start, &c1, &c2, end, tolerance_sq) on an empty ring
CubicAddCubicBezier ==
  /\ ~fnDone
  /\ fnOut' = add_cubic_bezier(<<>>, fnIn.start, fnIn.c1, fnIn.c2, fnIn.end)
  /\ fnDone' = TRUE
  /\ UNCHANGED ringVars
  /\ UNCHANGED <<fnIn, tarVars, managerVars, blockVars, runVars, workerVars, writerVars>>

CubicNext == CubicAddCubicBezier

SpecCubic == CubicInit /\ [][CubicNext]_vars

\* The point of the cubic at t = 1/2: the last midpoint of the construction.
CubicHalf(start, c1, c2, end) ==
  midpoint(midpoint(midpoint(start, c1), midpoint(c1, c2)),
           midpoint(midpoint(c1, c2), midpoint(c2, end)))

\* The point of the cubic at t = 1/4: the point at 1/2 of its first half.
CubicQuarter(start, c1, c2, end) ==
  CubicHalf(start, midpoint(start, c1),
            midpoint(midpoint(start, c1), midpoint(c1, c2)),
            CubicHalf(start, c1, c2, end))

\* The point of the cubic at t = 3/4: the point at 1/2 of its second half.
CubicThreeQuarters(start, c1, c2, end) ==
  CubicHalf(CubicHalf(start, c1, c2, end),
            midpoint(midpoint(c1, c2), midpoint(c2, end)),
            midpoint(c2, end), end)

\* A coordinate that is a multiple of 1/64, in sixty-fourths.
Sixtyfourths(a) == a.c \div (SCALE \div 64)

\* The square of the distance from p to the segment from a to b is at most
\* 1 / PRECISION_INV; the coordinates are multiples of 1/64 between -1 and 1.
\* A point off the line of the segment by more than 2048 / |ab| sixty-fourths
\* is beyond the tolerance for every such segment, and is decided without the
\* square, which the integers of the checker cannot hold.
WithinTolerance(p, a, b) ==
  LET abx == Sixtyfourths(b.x) - Sixtyfourths(a.x)
      aby == Sixtyfourths(b.y) - Sixtyfourths(a.y)
      apx == Sixtyfourths(p.x) - Sixtyfourths(a.x)
      apy == Sixtyfourths(p.y) - Sixtyfourths(a.y)
      bpx == Sixtyfourths(p.x) - Sixtyfourths(b.x)
      bpy == Sixtyfourths(p.y) - Sixtyfourths(b.y)
      len2 == abx * abx + aby * aby
      dot == apx * abx + apy * aby
      cross == abx * apy - aby * apx
  IN  IF dot <= 0
      THEN (apx * apx + apy * apy) * PRECISION_INV <= 64 * 64
      ELSE IF dot >= len2
      THEN (bpx * bpx + bpy * bpy) * PRECISION_INV <= 64 * 64
      ELSE /\ cross <= 2048
           /\ 0 - cross <= 2048
           /\ cross * cross * PRECISION_INV <= 64 * 64 * len2

\* C30: when add_cubic_bezier emits a cubic without subdividing it (it
\* appends the end point alone), the points of the cubic at t = 1/4 and at
\* t = 3/4 lie within sqrt(tolerance_sq) of the segment from start to end.
C30_FlatPieceWithinTolerance ==
  (fnDone /\ Len(fnOut) = 1) =>
    /\ WithinTolerance(CubicQuarter(fnIn.start, fnIn.c1, fnIn.c2, fnIn.end),
                       fnIn.start, fnIn.end)
    /\ WithinTolerance(CubicThreeQuarters(fnIn.start, fnIn.c1, fnIn.c2, fnIn.end),
                       fnIn.start, fnIn.end)

\* A cubic with c1 + c2 = start + end whose control points are a whole unit
\* off the chord has been emitted as one segment.
C30_SCurveEmittedWhole ==
  /\ fnDone
  /\ fnIn = [start |-> CubicPoint(0, 0), c1 |-> CubicPoint(0, 1),
             c2 |-> CubicPoint(1, -1), end |-> CubicPoint(1, 0)]
  /\ fnOut = <<CubicPoint(1, 0)>>

(***************************************************************************)
(* Termination of the subdivision.  The recursion of add_quadratic_bezier  *)
(* and add_cubic_bezier is followed call by call: a frame is the arguments *)
(* of one call and the place it has reached.  The coordinates are the f64  *)
(* values 2^60 + k * 2^8 for small k >= 0, written k: neighbours in the    *)
(* binade of 2^60, whose unit in the last place is 2^8.  The sum of two of *)
(* them lies in the binade of 2^61, where the representable values are     *)
(* 2^61 + j * 2^9 with significand 2^52 + j, and is rounded to the nearest *)
(* of these, a tie going to the even significand.                          *)
(***************************************************************************)
\* The frames of the call stack that the model follows.
MaxDepth == 4

\* The largest k of an argument.
MaxOffset == 2

\* a + b in f64, as 2^61 + (a (+) b) * 2^8
HugeAdd(a, b) ==
  LET s == a + b
  IN  IF s % 2 = 0 THEN s
      ELSE IF (s + 1) % 4 = 0 THEN s + 1 ELSE s - 1

\* Point::midpoint: (a + b) / 2.0 in each coordinate; the half is exact.
HugeMidpoint(p, q) == Point(HugeAdd(p.x, q.x) \div 2, HugeAdd(p.y, q.y) \div 2)

\* dx * dx + dy * dy <= tolerance_sq for the quadratic: the difference of the
\* rounded sum and ctrl * 2.0 is exact, a multiple of 2^9, and its square is
\* at most 0.01 only when it is zero.
HugeQuadFlat(start, ctrl, end) ==
  /\ HugeAdd(start.x, end.x) - 2 * ctrl.x = 0
  /\ HugeAdd(start.y, end.y) - 2 * ctrl.y = 0

\* dx * dx + dy * dy <= tolerance_sq for the cubic
HugeCubicFlat(start, c1, c2, end) ==
  /\ HugeAdd(c2.x, c1.x) - HugeAdd(start.x, end.x) = 0
  /\ HugeAdd(c2.y, c1.y) - HugeAdd(start.y, end.y) = 0

\* The flatness test of a call with the arguments a: three points for
\* add_quadratic_bezier, four for add_cubic_bezier.
IsFlat(a) ==
  IF Len(a) = 3 THEN HugeQuadFlat(a[1], a[2], a[3])
  ELSE HugeCubicFlat(a[1], a[2], a[3], a[4])

\* The arguments of the first recursive call.
FirstHalf(a) ==
  IF Len(a) = 3
  THEN LET mid_1 == HugeMidpoint(a[1], a[2])
           mid_2 == HugeMidpoint(a[2], a[3])
       IN  <<a[1], mid_1, HugeMidpoint(mid_1, mid_2)>>
  ELSE LET p01 == HugeMidpoint(a[1], a[2])
           p12 == HugeMidpoint(a[2], a[3])
           p23 == HugeMidpoint(a[3], a[4])
           p012 == HugeMidpoint(p01, p12)
           p123 == HugeMidpoint(p12, p23)
       IN  <<a[1], p01, p012, HugeMidpoint(p012, p123)>>

\* The arguments of the second recursive call.
SecondHalf(a) ==
  IF Len(a) = 3
  THEN LET mid_1 == HugeMidpoint(a[1], a[2])
           mid_2 == HugeMidpoint(a[2], a[3])
       IN  <<HugeMidpoint(mid_1, mid_2), mid_2, a[3]>>
  ELSE LET p01 == HugeMidpoint(a[1], a[2])
           p12 == HugeMidpoint(a[2], a[3])
           p23 == HugeMidpoint(a[3], a[4])
           p012 == HugeMidpoint(p01, p12)
           p123 == HugeMidpoint(p12, p23)
       IN  <<HugeMidpoint(p012, p123), p123, p23, a[4]>>

HugePointChoices == {Point(x, 0) : x \in 0..MaxOffset} \cup {Point(1, 1)}

\* A frame: the arguments of a call and the recursive calls it has made.
Frame(a, made) == [args |-> a, made |-> made]

\* fnIn is the arguments of the outermost call; fnOut is the call stack,
\* innermost frame last, and the points appended to the ring so far.
FlInit ==
  /\ BlocksIdle
  /\ ManagerIdle
  /\ RunIdle
  /\ TarIdle
  /\ RingIdle
  /\ fnIn \in [1..3 -> HugePointChoices] \cup [1..4 -> HugePointChoices]
  /\ fnOut = [stack |-> <<Frame(fnIn, 0)>>, points |-> <<>>]
  /\ fnDone = FALSE

FlTop == fnOut.stack[Len(fnOut.stack)]

FlReturn(stack, points) ==
  /\ fnOut' = [stack |-> SubSeq(stack, 1, Len(stack) - 1), points |-> points]
  /\ fnDone' = (Len(stack) = 1)
  /\ UNCHANGED ringVars
  /\ UNCHANGED <<fnIn, tarVars, managerVars, blockVars, runVars, workerVars, writerVars>>

FlCall(stack, a) ==
  /\ Len(stack) < MaxDepth
  /\ fnOut' = [stack |-> Append([stack EXCEPT ![Len(stack)].made = @ + 1], Frame(a, 0)),
               points |-> fnOut.points]
  /\ UNCHANGED ringVars
  /\ UNCHANGED <<fnIn, fnDone, tarVars, managerVars, blockVars, runVars, workerVars,
                 writerVars>>

\* The curve is flat enough: self.add_point(end), and the call returns.
FlAddPoint ==
  /\ fnOut.stack # <<>>
  /\ FlTop.made = 0
  /\ IsFlat(FlTop.args)
  /\ FlReturn(fnOut.stack, Append(fnOut.points, FlTop.args[Len(FlTop.args)]))

\* The curve is not flat enough: the first recursive call.
FlSubdivideFirst ==
  /\ fnOut.stack # <<>>
  /\ FlTop.made = 0
  /\ ~IsFlat(FlTop.args)
  /\ FlCall(fnOut.stack, FirstHalf(FlTop.args))

\* The first recursive call has returned: the second recursive call.
FlSubdivideSecond ==
  /\ fnOut.stack # <<>>
  /\ FlTop.made = 1
  /\ FlCall(fnOut.stack, SecondHalf(FlTop.args))

\* The second recursive call has returned: the call returns.
FlSubdivided ==
  /\ fnOut.stack # <<>>
  /\ FlTop.made = 2
  /\ FlReturn(fnOut.stack, fnOut.points)

FlNext ==
  \/ FlAddPoint
  \/ FlSubdivideFirst
  \/ FlSubdivideSecond
  \/ FlSubdivided

SpecFlatten == FlInit /\ [][FlNext]_vars

\* A call on the stack has the arguments of a call below it: the function
\* being deterministic, the recursion never returns.
CallRepeats ==
  \E i, j \in 1..Len(fnOut.stack) :
    i < j /\ fnOut.stack[i].args = fnOut.stack[j].args

\* C29: add_quadratic_bezier and add_cubic_bezier return for finite
\* coordinates and tolerance_sq > 0 (no call is made again with the
\* arguments of a call in progress); once returned, at least one point has
\* been appended and the last of them is the end point of the curve, and
\* when the whole curve passes the flatness test the end point is the only
\* point appended.
C29_FlattenTerminates ==
  /\ ~fnDone => ~CallRepeats
  /\ fnDone =>
       /\ Len(fnOut.points) >= 1
       /\ fnOut.points[Len(fnOut.points)] = fnIn[Len(fnIn)]
       /\ IsFlat(fnIn) => Len(fnOut.points) = 1

\* A call has returned after subdividing its curve.
C29_ReturnedSubdivided ==
  /\ fnDone
  /\ Len(fnOut.points) >= 2

====
